---- MODULE Spec2Model ----
(***************************************************************************)
(* Zocket server runtime (packages/core/src/server/server.ts) on the       *)
(* single-threaded JavaScript event loop.                                  *)
(*                                                                         *)
(* A macrotask (socket open / message / close, a timer or I/O completion,  *)
(* a server-side push) starts only when the microtask queue is empty and   *)
(* runs the synchronous prefix of its handler up to the first `await`.     *)
(* Every `await` of a settled value appends the continuation to the        *)
(* microtask queue microQ; an `await` of a pending promise parks the       *)
(* continuation (io for user I/O, initWaiters for initPromise).            *)
(***************************************************************************)
EXTENDS Naturals, Sequences, FiniteSets

\* ------------------------------------------------------------------ bounds
MaxFrames == 2          \* inbound frames received in a dispatch run
MaxRoomFrames == 3      \* inbound frames received in a room run
MaxLifeFrames == 1      \* inbound frames received in a lifecycle run
MaxPush == 1            \* server.send pushes issued outside any request
MaxSendFrames == 1      \* inbound frames received in a send run
MaxSendPush == 1        \* server.send pushes in a send run
MaxTopicFrames == 3     \* inbound frames received in a topic run
MaxTopicPush == 1       \* server.send pushes in a topic run
MaxErrorFrames == 3     \* inbound frames received in an error run
MaxMiddlewareFrames == 3 \* inbound frames received in a middleware run
MaxMalformedFrames == 3 \* inbound frames received in a malformed run
MaxUpgrades == 2        \* handshake requests in an upgrade run
MaxBuilds == 1          \* servers built in a startup run
MaxEvals == 3           \* accessor expressions evaluated in a client run
MaxInflightFrames == 2  \* inbound frames received in an in-flight run
MaxShoutFrames == 4     \* inbound frames received in a shout run
MaxAmbientFrames == 3   \* inbound frames received in an ambient run

\* ------------------------------------------------------------------ inputs
Clients == {"c1", "c2"}             \* client ids handed out by the upgrade
Rooms == {"r1", "r2"}
Undefined == "undefined"
Payloads == {"r1", "r2", Undefined, "bad", "boom", "c1", "c2", "ghost"}
RpcIds == {Undefined, "", "x", "y"} \* absent, empty string, non-empty strings
InRoutes == {"greet", "test.compute", "test.adminOnly", "rooms.join", "rooms.leave",
             "rooms.message", "trigger", "chat.private", "delayedEcho",
             "delayedJoin", "delayedTrigger", "rooms.shout", "test.gated"}

\* Routes whose handler awaits a timer before it goes on.
AsyncRoutes == {"delayedEcho", "delayedJoin", "delayedTrigger"}
OutRoutes == {"message", "test.onResult", "test.onAdmin", "rooms.onJoin", "rooms.onLeave",
              "rooms.onMessage", "chat.onPrivate"}

\* Handshake headers of each client (role: z.enum(["admin","user"])).
Headers(c) == IF c = "c1" THEN "admin" ELSE "user"

\* ------------------------------------------------------------------ state
VARIABLES
  sock,               \* transport socket of each client: "new" | "open" | "closed"
  clientConnections,  \* keys of the live connection table
  clientContexts,     \* the context table (NoCtx: no entry)
  clientRooms,        \* keys of the room registry
  roomSets,           \* contents of the Set created by each open handler
  pendingContexts,    \* keys of the pending-context map
  initPromise,        \* "none" | "pending" | "resolved" | "rejected"
  initWaiters,        \* continuations awaiting initPromise, in registration order
  subscribed,         \* topics each transport socket is subscribed to
  sink,               \* frames handed to each connection's sink, in order
  tasks,              \* one record per inbound frame, in receive order
  microQ,             \* the microtask queue
  io,                 \* continuations parked on user I/O (timers, lookups)
  started,            \* task indices in the order their handlers were invoked
  connectCalls,       \* number of on_connect invocations per client
  connectOutcome,     \* "none" | "pending" | "returned" | "threw"
  disconnectLog,      \* the arguments of each on_disconnect invocation
  closeDone,          \* handle_close ran to its end for the client
  pushes,             \* server.send pushes issued so far: kind, targets, the
                      \* clients whose handle_close had finished by then and
                      \* the live connections whose sink was throwing
  sendFails,          \* clients whose sink throws on send
  publishFn,          \* the adapter provides publish (serverPublishRef.fn is set)
  upgrades,           \* upgrade requests handled by fetch, with their outcome
  wsOpen,             \* indices of the upgrades whose socket is open
  registered,         \* clientConnections as pairs <<client id, upgrade index>>
  built,              \* outcomes of building a server from a router
  proxyCache,         \* the client's proxyCache as pairs <<key, proxy>>
  evals,              \* evaluations of client.on / client.send paths: path, proxy
  sockets,            \* every WebSocket the client created: readyState, reconnect
                      \* listeners, whether its close event is being dispatched
  socket,             \* the client's current socket (index into sockets), 0 for null
  hook                \* one useCall hook: refs, React state, calls in flight

\* State of the adapter, the handshake, the startup and the client library.
edgeVars == <<publishFn, upgrades, wsOpen, registered, built, proxyCache, evals, sockets, socket, hook>>

\* State of the connection runtime.
runtimeVars == <<sock, clientConnections, clientContexts, clientRooms, roomSets,
                 pendingContexts, initPromise, initWaiters, subscribed, sink, tasks,
                 microQ, io, started, connectCalls, connectOutcome, disconnectLog,
                 closeDone, pushes, sendFails>>

vars == <<sock, clientConnections, clientContexts, clientRooms, roomSets,
          pendingContexts, initPromise, initWaiters, subscribed, sink, tasks,
          microQ, io, started, connectCalls, connectOutcome, disconnectLog,
          closeDone, pushes, sendFails, edgeVars>>

\* ------------------------------------------------------------ JS values
\* `if (rpcId)`: undefined and the empty string are falsy.
Truthy(v) == v \notin {Undefined, ""}

NoCtx == [clientId |-> Undefined, role |-> Undefined, step1 |-> <<>>,
          step2 |-> <<>>, isAdmin |-> FALSE]

\* { ...userContext, send, rooms, clientId }
MakeCtx(c, userContext) ==
  [clientId |-> c, role |-> userContext, step1 |-> <<>>, step2 |-> <<>>,
   isAdmin |-> FALSE]

\* onConnect: (headers) => ({ role: headers.role })
OnConnectValue(c) == Headers(c)

Cont(k, c, t, ok) == [k |-> k, c |-> c, t |-> t, ok |-> ok]

\* ------------------------------------------------------- dispatch table
\* handlerMap.get(type): only incoming procedures carry a handler.
HasHandler(type) == type \in InRoutes

\* metaMap.get(type)?.payloadSchema: every procedure is built with a schema.
HasSchema(type) == type \in InRoutes \cup OutRoutes

\* meta.middlewares.length
NumMiddlewares(type) ==
  CASE type = "test.compute" -> 2
    [] type = "test.adminOnly" -> 1
    [] type = "test.gated" -> 2
    [] OTHER -> 0

\* schema["~standard"].validate(payload): a value (coerced), issues, or a
\* throw of the validator itself ("boom").
\*   greet          z.object({ name: z.string() })
\*   test.compute   z.object({ message: z.string().default("ping") })
\*   test.adminOnly z.object({})            (unknown keys are stripped)
\*   rooms.*        z.object({ roomId: z.string() })
Validate(type, payload) ==
  CASE payload = "boom" -> [issues |-> FALSE, threw |-> TRUE, value |-> Undefined]
    [] payload = "bad" -> [issues |-> TRUE, threw |-> FALSE, value |-> Undefined]
    [] type = "test.compute" ->
         [issues |-> FALSE, threw |-> FALSE,
          value |-> IF payload = Undefined THEN "ping" ELSE payload]
    [] type = "test.adminOnly" -> [issues |-> FALSE, threw |-> FALSE, value |-> "{}"]
    [] OTHER -> [issues |-> payload = Undefined, threw |-> FALSE, value |-> payload]

\* The i-th middleware declared with use() on the route's builder.
\*   test.compute    use(mw1).use(mw2)
\*   test.adminOnly  use(adminOnly)
\*   test.gated      use(adminOnly).use(audit)
RunMiddleware(type, i, ctx, payload) ==
  CASE type = "test.compute" /\ i = 1 ->
         [throws |-> FALSE, add |-> [step1 |-> <<"mw1", payload>>]]
    [] type = "test.compute" /\ i = 2 ->
         [throws |-> FALSE, add |-> [step2 |-> <<"mw2">> \o ctx.step1]]
    [] type = "test.gated" /\ i = 2 ->
         [throws |-> FALSE, add |-> [step2 |-> <<"audit">>]]
    [] OTHER ->
         [throws |-> ctx.role # "admin", add |-> [isAdmin |-> TRUE]]

\* Mutant of Assign: the value returned by a middleware is not merged.
Assign_none(ctx, add) == ctx

\* Object.assign(currentCtx, add)
Assign(ctx, add) ==
  [k \in DOMAIN ctx |-> IF k \in DOMAIN add THEN add[k] ELSE ctx[k]]

\* ------------------------------------------------------------ bundle
\* The part of the state that user code running inside a request can touch.
Bundle ==
  [rooms |-> roomSets, subscribed |-> subscribed, sink |-> sink,
   tasks |-> tasks, microQ |-> microQ, started |-> started, io |-> io]

Commit(S) ==
  /\ roomSets' = S.rooms
  /\ subscribed' = S.subscribed
  /\ sink' = S.sink
  /\ tasks' = S.tasks
  /\ microQ' = S.microQ
  /\ started' = S.started
  /\ io' = S.io

\* ------------------------------------------------------------ send fabric
\* JSON.stringify({ type: route, payload })
Message(route, payload) == [type |-> route, payload |-> payload, rpcId |-> Undefined]

\* targetWs.send(message); a throw of the sink is caught by the caller.
WsSend(S, c, msg) ==
  IF c \in sendFails THEN S ELSE [S EXCEPT !.sink[c] = Append(@, msg)]

\* Mutant of SendTo: an id that is not connected aborts the whole call.
RECURSIVE SendTo_untilMissing(_, _, _)
SendTo_untilMissing(S, clientIds, msg) ==
  IF clientIds = <<>> \/ Head(clientIds) \notin clientConnections THEN S
  ELSE SendTo_untilMissing(WsSend(S, Head(clientIds), msg), Tail(clientIds), msg)

\* to(clientIds): clientIds.forEach(id => clientConnections.get(id)?.send(message))
RECURSIVE SendTo(_, _, _)
SendTo(S, clientIds, msg) ==
  IF clientIds = <<>> THEN S
  ELSE LET target == Head(clientIds)
           S1 == IF target \in clientConnections THEN WsSend(S, target, msg) ELSE S
       IN SendTo(S1, Tail(clientIds), msg)

\* Mutant of SendBroadcast: no try/catch, the first throwing sink ends the
\* whole call.
SendBroadcast_abortOnThrow(S, msg) ==
  [S EXCEPT !.sink = [c \in Clients |->
     IF c \in clientConnections /\ clientConnections \cap sendFails = {}
     THEN Append(S.sink[c], msg) ELSE S.sink[c]]]

\* Mutant of SendBroadcast: iterates the context table instead of the live
\* connection table.
SendBroadcast_contexts(S, msg) ==
  [S EXCEPT !.sink = [c \in Clients |->
     IF clientContexts[c] # NoCtx THEN WsSend(S, c, msg).sink[c] ELSE S.sink[c]]]

\* broadcast(): clientConnections.forEach(ws => ws.send(message))
SendBroadcast(S, msg) ==
  [S EXCEPT !.sink = [c \in Clients |->
     IF c \in clientConnections THEN WsSend(S, c, msg).sink[c] ELSE S.sink[c]]]

\* Mutant of Publish: the topic is ignored, every open socket gets the frame.
Publish_everyone(S, topic, msg) ==
  [S EXCEPT !.sink = [c \in Clients |->
     IF sock[c] = "open" THEN Append(S.sink[c], msg) ELSE S.sink[c]]]

\* bunServer.publish(topic, message): the transport delivers to every open
\* socket subscribed to the topic.
Publish(S, topic, msg) ==
  [S EXCEPT !.sink = [c \in Clients |->
     IF sock[c] = "open" /\ topic \in S.subscribed[c]
     THEN Append(S.sink[c], msg) ELSE S.sink[c]]]

\* Mutant of SendToRoom: without a publish function the room's members are
\* looked up in the registry and written to one by one.
RECURSIVE SendToRoom_fallback(_, _, _)
SendToRoom_fallback(S, roomIds, msg) ==
  IF roomIds = <<>> THEN S
  ELSE LET r == Head(roomIds)
           S1 == IF publishFn THEN Publish(S, r, msg)
                 ELSE [S EXCEPT !.sink = [c \in Clients |->
                         IF c \in clientRooms /\ r \in S.rooms[c]
                         THEN Append(S.sink[c], msg) ELSE S.sink[c]]]
       IN SendToRoom_fallback(S1, Tail(roomIds), msg)

\* toRoom(roomIds): if (serverPublishRef?.fn) roomIds.forEach(roomId =>
\* serverPublishRef.fn(roomId, message)); else console.warn(..)
RECURSIVE SendToRoom(_, _, _)
SendToRoom(S, roomIds, msg) ==
  IF roomIds = <<>> \/ ~publishFn THEN S
  ELSE SendToRoom(Publish(S, Head(roomIds), msg), Tail(roomIds), msg)

\* path.join(".") of the property path walked on the send proxy.
JoinRoute(path) ==
  CASE path = <<"message">> -> "message"
    [] path = <<"test", "onResult">> -> "test.onResult"
    [] path = <<"test", "onAdmin">> -> "test.onAdmin"
    [] path = <<"rooms", "onJoin">> -> "rooms.onJoin"
    [] path = <<"rooms", "onLeave">> -> "rooms.onLeave"
    [] path = <<"rooms", "onMessage">> -> "rooms.onMessage"
    [] path = <<"chat", "onPrivate">> -> "chat.onPrivate"
    [] OTHER -> Undefined

\* send.<path>(payload).toRoom(roomIds)
SendProxyToRoom(S, path, payload, roomIds) ==
  SendToRoom(S, roomIds, Message(JoinRoute(path), payload))

\* Mutant of RoomsBroadcast: the frame is published whether or not the
\* adapter gave a publish function.
RoomsBroadcast_always(S, roomId, route, payload) ==
  Publish(S, roomId, Message(route, payload))

\* roomOps.broadcast: serverPublishRef?.fn?.(roomId, JSON.stringify({type, payload}))
RoomsBroadcast(S, roomId, route, payload) ==
  IF publishFn THEN Publish(S, roomId, Message(route, payload)) ELSE S

\* ------------------------------------------------------------ room registry
\* ws.subscribe(topic) / ws.unsubscribe(topic) on the transport socket.
WsSubscribe(S, c, r) ==
  IF sock[c] = "open" THEN [S EXCEPT !.subscribed[c] = @ \cup {r}] ELSE S

WsUnsubscribe(S, c, r) == [S EXCEPT !.subscribed[c] = @ \ {r}]

\* Mutant of RoomsJoin: one Set shared by every connection.
RoomsJoin_shared(S, c, r) ==
  WsSubscribe([S EXCEPT !.rooms = [b \in Clients |-> S.rooms[b] \cup {r}]], c, r)

\* Mutant of RoomsJoin: membership counted, a second join undoes the first.
RoomsJoin_toggle(S, c, r) ==
  IF r \in S.rooms[c] THEN [S EXCEPT !.rooms[c] = @ \ {r}]
  ELSE WsSubscribe([S EXCEPT !.rooms[c] = @ \cup {r}], c, r)

\* roomOps.join: rooms.add(roomId); ws.subscribe(roomId)
RoomsJoin(S, c, r) == WsSubscribe([S EXCEPT !.rooms[c] = @ \cup {r}], c, r)

\* Mutant of RoomsLeave: the transport subscription is kept.
RoomsLeave_noUnsubscribe(S, c, r) == [S EXCEPT !.rooms[c] = @ \ {r}]

\* roomOps.leave: rooms.delete(roomId); ws.unsubscribe(roomId)
RoomsLeave(S, c, r) == WsUnsubscribe([S EXCEPT !.rooms[c] = @ \ {r}], c, r)

\* Mutant of RoomsHas: every request starts from a fresh, empty copy.
RoomsHas_fresh(S, c, r) == FALSE

\* roomOps.has: rooms.has(roomId);  roomOps.current: the Set itself
RoomsHas(S, c, r) == r \in S.rooms[c]

RoomsCurrent(S, c) == S.rooms[c]

\* ------------------------------------------------------------ handlers
\* The synchronous body of the handler registered at each incoming route.
\*   greet          return `Hello, ${input.name}!`
\*   test.compute   send.test.onResult({step1, step2}).to([ctx.clientId])
\*   test.adminOnly if (!ctx.isAdmin) return; send.test.onAdmin(..).to([ctx.clientId])
\*   rooms.join     ctx.rooms.join(roomId); send.rooms.onJoin(..).toRoom([roomId])
\*   rooms.leave    send.rooms.onLeave(..).toRoom([roomId]); ctx.rooms.leave(roomId)
\*   rooms.message  if (!ctx.rooms.has(roomId)) return; send.rooms.onMessage(..).toRoom([roomId])
\*   rooms.shout    ctx.rooms.broadcast(roomId, "rooms.onMessage", ..)
\*   test.gated     as test.adminOnly, behind use(adminOnly).use(audit)
\*   trigger        send.message(input).broadcast()
\*   chat.private   send.chat.onPrivate(..).to([input.targetUserId])
\*   delayedEcho    await timer; return `Echo: ${input}`   (see CallHandler)
HandlerEffects(S, type, ctx, input) ==
  CASE type = "test.compute" ->
         SendTo(S, <<ctx.clientId>>, Message("test.onResult", <<ctx.step1, ctx.step2>>))
    [] type \in {"test.adminOnly", "test.gated"} ->
         IF ~ctx.isAdmin THEN S
         ELSE SendTo(S, <<ctx.clientId>>, Message("test.onAdmin", <<"ok">>))
    [] type = "rooms.join" ->
         SendToRoom(RoomsJoin(S, ctx.clientId, input), <<input>>,
                    Message("rooms.onJoin", <<input, ctx.role>>))
    [] type = "rooms.leave" ->
         RoomsLeave(SendToRoom(S, <<input>>, Message("rooms.onLeave", <<input, ctx.role>>)),
                    ctx.clientId, input)
    [] type = "rooms.message" ->
         IF ~RoomsHas(S, ctx.clientId, input) THEN S
         ELSE SendProxyToRoom(S, <<"rooms", "onMessage">>, <<input, ctx.role>>, <<input>>)
    [] type = "rooms.shout" ->
         RoomsBroadcast(S, input, "rooms.onMessage", <<input, ctx.role>>)
    [] type = "trigger" -> SendBroadcast(S, Message("message", <<input>>))
    [] type = "chat.private" ->
         SendTo(S, <<input>>, Message("chat.onPrivate", <<ctx.role>>))
    [] OTHER -> S

\* The body of an async handler after its `await`:
\*   delayedJoin     await timer; ctx.rooms.join(input)
\*   delayedTrigger  await timer; send.message(input).broadcast()
AfterIoEffects(S, type, ctx, input) ==
  CASE type = "delayedJoin" -> RoomsJoin(S, ctx.clientId, input)
    [] type = "delayedTrigger" -> SendBroadcast(S, Message("message", <<input>>))
    [] OTHER -> S

HandlerResult(type, ctx, input) ==
  CASE type = "greet" -> <<"Hello", input>>
    [] type = "delayedEcho" -> <<"Echo", input>>
    [] OTHER -> <<Undefined>>

\* ------------------------------------------------------------ dispatch
\* Inbound text that is no dispatchable frame carries a kind:
\*   "notjson"  JSON.parse throws            "number", "null"  not an object
\*   "notype"   an object without type       "numtype"  type is a number
MalformedKinds == {"notjson", "number", "null", "notype", "numtype"}

IsMalformed(frame) == "kind" \in DOMAIN frame

\* JSON.parse(message) and the shape check: how the processing ends.
ParseOutcome(frame) == IF frame.kind = "notjson" THEN "error" ELSE "invalid format"

NewTask(c, frame, deferred) ==
  [conn |-> c, type |-> frame.type, payload |-> frame.payload, rpcId |-> frame.rpcId,
   pc |-> "recv", out |-> "", deferred |-> deferred,
   published |-> clientContexts[c] # NoCtx, hroute |-> "",
   input |-> frame.payload, ctx |-> NoCtx, mwi |-> 0, add |-> <<>>,
   mwCalls |-> 0, hcalls |-> 0, result |-> <<Undefined>>, replies |-> 0,
   has |-> FALSE, current |-> {}, store |-> 0, ambient |-> <<>>]

\* getContext() outside requestContext.run: throws "Zocket Context Error".
ContextError == [NoCtx EXCEPT !.clientId = "Zocket Context Error"]

\* Mutant of GetContext: one module-level slot, written by the request that
\* entered run() last.
GetContext_global(S, t) ==
  LET ran == {u \in DOMAIN S.tasks : S.tasks[u].store # 0}
  IN IF ran = {} THEN ContextError
     ELSE S.tasks[CHOOSE u \in ran : \A v \in ran : v <= u].ctx

\* getContext() called by code of request t (t = 0: by code outside any
\* request): requestContext.getStore() is the object given to the run() the
\* calling code descends from, through every await.
GetContext(S, t) ==
  IF t = 0 \/ S.tasks[t].store = 0 THEN ContextError
  ELSE S.tasks[S.tasks[t].store].ctx

\* The request's code calls getContext() and keeps what it got.
ReadAmbient(S, t, point) ==
  [S EXCEPT !.tasks[t].ambient = Append(@, [point |-> point, seen |-> GetContext(S, t)])]

Enqueue(S, t) == [S EXCEPT !.microQ = Append(@, Cont("task", S.tasks[t].conn, t, TRUE))]

\* return (or a caught throw): the frame's processing ends.
Finish(S, t, out) == [S EXCEPT !.tasks[t].pc = "done", !.tasks[t].out = out]

\* const result = await handler({ payload: parsedPayload, ctx: currentCtx })
CallHandler(S, t) ==
  LET task == S.tasks[t]
      c == task.ctx.clientId
      S1 == ReadAmbient([S EXCEPT !.started = Append(@, t),
                                  !.tasks[t].hcalls = @ + 1,
                                  !.tasks[t].hroute = task.type,
                                  !.tasks[t].has = RoomsHas(S, c, task.input),
                                  !.tasks[t].current = RoomsCurrent(S, c)], t, "handler")
  IN IF task.type \in AsyncRoutes
     THEN [S1 EXCEPT !.tasks[t].pc = "handlerIo",
                     !.io = @ \cup {Cont("task", task.conn, t, TRUE)}]
     ELSE Enqueue(HandlerEffects(
                    [S1 EXCEPT !.tasks[t].pc = "handler",
                               !.tasks[t].result = HandlerResult(task.type, task.ctx, task.input)],
                    task.type, task.ctx, task.input), t)

\* Mutant of CallMiddleware: a throw of the middleware is swallowed and the
\* request goes on.
CallMiddleware_swallow(S, t, i) ==
  LET task == S.tasks[t]
      r == RunMiddleware(task.type, i, task.ctx, task.input)
      S1 == [S EXCEPT !.tasks[t].mwCalls = @ + 1]
  IN Enqueue([S1 EXCEPT !.tasks[t].pc = "mw", !.tasks[t].mwi = i,
                        !.tasks[t].add = IF r.throws THEN <<>> ELSE r.add], t)

\* const add = await Promise.resolve(mw({ ctx: currentCtx, payload: parsedPayload }))
CallMiddleware(S, t, i) ==
  LET task == S.tasks[t]
      r == RunMiddleware(task.type, i, task.ctx, task.input)
      S1 == ReadAmbient([S EXCEPT !.tasks[t].mwCalls = @ + 1], t, "middleware")
  IN IF r.throws THEN Finish(S1, t, "middleware threw")
     ELSE Enqueue([S1 EXCEPT !.tasks[t].pc = "mw", !.tasks[t].mwi = i,
                             !.tasks[t].add = r.add], t)

\* Mutant of CurrentCtx: no copy is made; the request works on the object the
\* earlier requests of the connection worked on.
CurrentCtx_shared(S, t) ==
  LET prev == {u \in 1..(t - 1) : S.tasks[u].conn = S.tasks[t].conn /\ S.tasks[u].store # 0}
  IN IF prev = {} THEN S.tasks[t].ctx
     ELSE S.tasks[CHOOSE u \in prev : \A v \in prev : v <= u].ctx

\* const currentCtx = { ...ctx }: a new object with the properties of the
\* stored context.
CurrentCtx(S, t) == S.tasks[t].ctx

\* const currentCtx = { ...ctx }; requestContext.run(currentCtx, ...)
BeginRequest(S, t) ==
  LET S1 == [S EXCEPT !.tasks[t].ctx = CurrentCtx(S, t), !.tasks[t].store = t]
  IN IF NumMiddlewares(S.tasks[t].type) > 0 THEN CallMiddleware(S1, t, 1)
     ELSE CallHandler(S1, t)

\* Mutant of FromCtx: the payload schema is never consulted, the handler gets
\* the raw payload.
FromCtx_noValidate(S, t) ==
  LET task == S.tasks[t]
      ctx == clientContexts[task.conn]
  IN IF HasHandler(task.type) /\ ctx # NoCtx
     THEN BeginRequest([S EXCEPT !.tasks[t].ctx = ctx], t)
     ELSE Finish(S, t, "dropped")

\* Mutant of FromCtx: a frame without handler is answered like an RPC.
FromCtx_replyUnknown(S, t) ==
  LET task == S.tasks[t]
      ctx == clientContexts[task.conn]
  IN IF HasHandler(task.type) /\ ctx # NoCtx
     THEN LET S1 == [S EXCEPT !.tasks[t].ctx = ctx]
          IN IF HasSchema(task.type)
             THEN Enqueue([S1 EXCEPT !.tasks[t].pc = "validate"], t)
             ELSE BeginRequest(S1, t)
     ELSE IF HasHandler(task.type) THEN Finish(S, t, "no context")
     ELSE Finish(WsSend([S EXCEPT !.tasks[t].replies = @ + 1], task.conn,
                        [type |-> "__rpc_res", payload |-> <<Undefined>>,
                         rpcId |-> task.rpcId]), t, "no handler")

\* const ctx = clientContexts.get(clientId); if (handler && ctx) { ... }
FromCtx(S, t) ==
  LET task == S.tasks[t]
      ctx == clientContexts[task.conn]
  IN IF HasHandler(task.type) /\ ctx # NoCtx
     THEN LET S1 == [S EXCEPT !.tasks[t].ctx = ctx]
          IN IF HasSchema(task.type)
             THEN Enqueue([S1 EXCEPT !.tasks[t].pc = "validate"], t)
             ELSE BeginRequest(S1, t)
     ELSE Finish(S, t, IF HasHandler(task.type) THEN "no context" ELSE "no handler")

\* if (rpcId) ws.send(JSON.stringify({ type: "__rpc_res", payload: result, rpcId }))
RpcReply(S, t) ==
  LET task == S.tasks[t]
  IN IF Truthy(task.rpcId)
     THEN WsSend([S EXCEPT !.tasks[t].replies = @ + 1], task.conn,
                 [type |-> "__rpc_res", payload |-> task.result, rpcId |-> task.rpcId])
     ELSE S

\* Mutant of Resume: the outcome of the validation is ignored, the request
\* goes on with the raw payload.
Resume_ignoreIssues(S, t) ==
  LET task == S.tasks[t]
  IN CASE task.pc = "pending" ->
            IF initPromise[task.conn] = "rejected" THEN Finish(S, t, "error")
            ELSE FromCtx(S, t)
       [] task.pc = "validate" -> BeginRequest(S, t)
       [] task.pc = "mw" ->
            LET S1 == [S EXCEPT !.tasks[t].ctx = Assign(task.ctx, task.add)]
            IN IF task.mwi < NumMiddlewares(task.type)
               THEN CallMiddleware(S1, t, task.mwi + 1)
               ELSE CallHandler(S1, t)
       [] task.pc = "handlerIo" -> Finish(S, t, "handler threw")
       [] task.pc = "handler" -> Finish(RpcReply(S, t), t, "ok")
       [] OTHER -> S

\* Mutant of Resume: a handler that throws is answered like one that returns.
Resume_replyOnThrow(S, t) ==
  LET task == S.tasks[t]
  IN CASE task.pc = "pending" ->
            IF initPromise[task.conn] = "rejected" THEN Finish(S, t, "error")
            ELSE FromCtx(S, t)
       [] task.pc = "validate" ->
            LET v == Validate(task.type, task.payload)
            IN IF v.threw THEN Finish(S, t, "payload parsing error")
               ELSE IF v.issues THEN Finish(S, t, "invalid payload")
               ELSE BeginRequest([S EXCEPT !.tasks[t].input = v.value], t)
       [] task.pc = "mw" ->
            LET S1 == [S EXCEPT !.tasks[t].ctx = Assign(task.ctx, task.add)]
            IN IF task.mwi < NumMiddlewares(task.type)
               THEN CallMiddleware(S1, t, task.mwi + 1)
               ELSE CallHandler(S1, t)
       [] task.pc = "handlerIo" ->
            IF Head(microQ).ok
            THEN Enqueue(AfterIoEffects(
                           ReadAmbient(
                             [S EXCEPT !.tasks[t].pc = "handler",
                                       !.tasks[t].result =
                                         HandlerResult(task.type, task.ctx, task.input)],
                             t, "resumed"),
                           task.type, task.ctx, task.input), t)
            ELSE Finish(RpcReply(S, t), t, "handler threw")
       [] task.pc = "handler" -> Finish(RpcReply(S, t), t, "ok")
       [] OTHER -> S

\* The continuation of a frame's processing after the `await` it is parked on.
Resume(S, t) ==
  LET task == S.tasks[t]
  IN CASE task.pc = "pending" ->
            IF initPromise[task.conn] = "rejected" THEN Finish(S, t, "error")
            ELSE FromCtx(S, t)
       [] task.pc = "validate" ->
            LET v == Validate(task.type, task.payload)
            IN IF v.threw THEN Finish(S, t, "payload parsing error")
               ELSE IF v.issues THEN Finish(S, t, "invalid payload")
               ELSE BeginRequest([S EXCEPT !.tasks[t].input = v.value], t)
       [] task.pc = "mw" ->
            LET S1 == [S EXCEPT !.tasks[t].ctx = Assign(task.ctx, task.add)]
            IN IF task.mwi < NumMiddlewares(task.type)
               THEN CallMiddleware(S1, t, task.mwi + 1)
               ELSE CallHandler(S1, t)
       [] task.pc = "handlerIo" ->
            IF Head(microQ).ok
            THEN Enqueue(AfterIoEffects(
                           ReadAmbient(
                             [S EXCEPT !.tasks[t].pc = "handler",
                                       !.tasks[t].result =
                                         HandlerResult(task.type, task.ctx, task.input)],
                             t, "resumed"),
                           task.type, task.ctx, task.input), t)
            ELSE Finish(S, t, "handler threw")
       [] task.pc = "handler" ->
            IF Truthy(task.rpcId) /\ task.conn \in sendFails
            THEN Finish(S, t, "error")
            ELSE Finish(RpcReply(S, t), t, "ok")
       [] OTHER -> S

\* ------------------------------------------------------------ initial state
InitTables ==
  /\ sock = [c \in Clients |-> "new"]
  /\ clientConnections = {}
  /\ clientContexts = [c \in Clients |-> NoCtx]
  /\ clientRooms = {}
  /\ roomSets = [c \in Clients |-> {}]
  /\ pendingContexts = {}
  /\ initPromise = [c \in Clients |-> "none"]
  /\ initWaiters = [c \in Clients |-> <<>>]
  /\ subscribed = [c \in Clients |-> {}]
  /\ sink = [c \in Clients |-> <<>>]
  /\ tasks = <<>>
  /\ microQ = <<>>
  /\ io = {}
  /\ started = <<>>
  /\ connectCalls = [c \in Clients |-> 0]
  /\ connectOutcome = [c \in Clients |-> "none"]
  /\ disconnectLog = [c \in Clients |-> <<>>]
  /\ closeDone = [c \in Clients |-> FALSE]
  /\ pushes = <<>>
  /\ sendFails = {}

\* useCall before its component is mounted: no render yet, no call started.
\* data, error: 0 for null, else the number of the call that produced it.
\* effects: the passive effects of the last render that React has not run yet
\* ("mount": both effects of the first render, "update": the effect on
\* [enabled, fetchData, ...deps], "none").
\* calls: calls awaiting their outcome; committed, dropped: settled calls whose
\* outcome was written to state, respectively ignored.
NoHook ==
  [rendered |-> FALSE, isMounted |-> FALSE, enabled |-> FALSE, requestId |-> 0,
   effects |-> "none",
   state |-> [data |-> 0, loading |-> FALSE, error |-> 0],
   calls |-> {}, committed |-> {}, dropped |-> {}]

InitEdge ==
  /\ upgrades = <<>>
  /\ wsOpen = {}
  /\ registered = {}
  /\ built = <<>>
  /\ proxyCache = {<< <<"send">>, 1 >>, << <<"on">>, 2 >>}
  /\ evals = <<>>
  /\ sockets = <<[readyState |-> "CONNECTING", reconnects |-> 0, dispatch |-> FALSE]>>
  /\ socket = 1
  /\ hook = NoHook

Init ==
  /\ publishFn = TRUE
  /\ InitEdge
  /\ InitTables

\* The state a server built without a publish function starts in.
InitNoPublish ==
  /\ publishFn = FALSE
  /\ InitEdge
  /\ InitTables

\* ------------------------------------------------------------ handle_open
\* websocket.open -> createOpenHandler, up to `await initPromise`.
\* mode: how the user's onConnect behaves ("sync": returns a value,
\* "async": returns a promise settled by later I/O, "throw": throws).
Open(c, mode) ==
  /\ microQ = <<>>
  /\ sock[c] = "new"
  /\ sock' = [sock EXCEPT ![c] = "open"]
  /\ clientConnections' = clientConnections \cup {c}
  /\ clientRooms' = clientRooms \cup {c}
  /\ roomSets' = [roomSets EXCEPT ![c] = {}]
  /\ connectCalls' = [connectCalls EXCEPT ![c] = @ + 1]
  /\ connectOutcome' = [connectOutcome EXCEPT ![c] = IF mode = "throw" THEN "threw" ELSE "pending"]
  /\ pendingContexts' = pendingContexts \cup {c}
  /\ initPromise' = [initPromise EXCEPT ![c] = IF mode = "throw" THEN "rejected" ELSE "pending"]
  /\ initWaiters' = [initWaiters EXCEPT ![c] =
                       IF mode = "throw" THEN <<>> ELSE <<Cont("open", c, 0, TRUE)>>]
  /\ microQ' = CASE mode = "sync" -> <<Cont("init", c, 0, TRUE)>>
                 [] mode = "throw" -> <<Cont("open", c, 0, FALSE)>>
                 [] OTHER -> <<>>
  /\ io' = IF mode = "async" THEN io \cup {Cont("init", c, 0, TRUE)} ELSE io
  /\ UNCHANGED <<clientContexts, subscribed, sink, tasks, started,
                 disconnectLog, closeDone, pushes, sendFails, edgeVars>>

\* Mutant of PublishedCtx: a failed onConnect is swallowed and a context is
\* stored all the same.
PublishedCtx_always(c, ok) == MakeCtx(c, OnConnectValue(c))

\* What the open handler stores once onConnect has settled: the context on a
\* normal return, nothing when it threw or rejected.
PublishedCtx(c, ok) == IF ok THEN MakeCtx(c, OnConnectValue(c)) ELSE NoCtx

\* The rest of initPromise's body after `await Promise.resolve(onConnect(..))`:
\* clientContexts.set(clientId, ctx); settling initPromise releases its waiters.
InitSettle(c) ==
  /\ microQ # <<>>
  /\ Head(microQ).k = "init" /\ Head(microQ).c = c
  /\ clientContexts' = [clientContexts EXCEPT ![c] = PublishedCtx(c, Head(microQ).ok)]
  /\ initPromise' = [initPromise EXCEPT ![c] =
                       IF clientContexts'[c] # NoCtx THEN "resolved" ELSE "rejected"]
  /\ microQ' = Tail(microQ) \o initWaiters[c]
  /\ initWaiters' = [initWaiters EXCEPT ![c] = <<>>]
  /\ connectOutcome' = [connectOutcome EXCEPT ![c] =
                          IF Head(microQ).ok THEN "returned" ELSE "threw"]
  /\ UNCHANGED <<sock, clientConnections, clientRooms, roomSets, pendingContexts,
                 subscribed, sink, tasks, io, started, connectCalls,
                 disconnectLog, closeDone, pushes, sendFails, edgeVars>>

\* await initPromise; pendingContexts.delete(clientId)   (skipped on rejection)
OpenCont(c) ==
  /\ microQ # <<>>
  /\ Head(microQ).k = "open" /\ Head(microQ).c = c
  /\ pendingContexts' = IF initPromise[c] = "resolved"
                        THEN pendingContexts \ {c} ELSE pendingContexts
  /\ microQ' = Tail(microQ)
  /\ UNCHANGED <<sock, clientConnections, clientContexts, clientRooms, roomSets,
                 initPromise, initWaiters, subscribed, sink, tasks, io, started,
                 connectCalls, connectOutcome, disconnectLog, closeDone, pushes, sendFails, edgeVars>>

\* A timer or I/O completion settles a promise returned by user code.
IoComplete(x, ok) ==
  /\ microQ = <<>>
  /\ x \in io
  /\ io' = io \ {x}
  /\ microQ' = <<[x EXCEPT !.ok = ok]>>
  /\ UNCHANGED <<sock, clientConnections, clientContexts, clientRooms, roomSets,
                 pendingContexts, initPromise, initWaiters, subscribed, sink,
                 tasks, started, connectCalls, connectOutcome, disconnectLog, closeDone, pushes, sendFails, edgeVars>>

\* ------------------------------------------------------------ handle_message
\* websocket.message -> createMessageHandler, up to its first `await`.
Receive(c, frame, limit) ==
  /\ microQ = <<>>
  /\ sock[c] = "open"
  /\ Len(tasks) < limit
  /\ LET t == Len(tasks) + 1
         parked == c \in pendingContexts /\ initPromise[c] = "pending"
         S0 == [Bundle EXCEPT !.tasks = Append(@, NewTask(c, frame, parked))]
     IN IF IsMalformed(frame)
        THEN /\ Commit(Finish(S0, t, ParseOutcome(frame)))
             /\ UNCHANGED initWaiters
        ELSE IF c \in pendingContexts
        THEN /\ Commit(IF parked THEN [S0 EXCEPT !.tasks[t].pc = "pending"]
                       ELSE Enqueue([S0 EXCEPT !.tasks[t].pc = "pending"], t))
             /\ initWaiters' = [initWaiters EXCEPT ![c] =
                                  IF parked THEN Append(@, Cont("task", c, t, TRUE)) ELSE @]
        ELSE /\ Commit(FromCtx(S0, t))
             /\ UNCHANGED initWaiters
  /\ UNCHANGED <<sock, clientConnections, clientContexts, clientRooms,
                 pendingContexts, initPromise, connectCalls, connectOutcome, disconnectLog,
                 closeDone, pushes, sendFails, edgeVars>>

\* A microtask resumes the processing of a frame.
TaskStep(t) ==
  /\ microQ # <<>>
  /\ Head(microQ).k = "task" /\ Head(microQ).t = t
  /\ Commit(Resume([Bundle EXCEPT !.microQ = Tail(@)], t))
  /\ UNCHANGED <<sock, clientConnections, clientContexts, clientRooms,
                 pendingContexts, initPromise, initWaiters, connectCalls, connectOutcome,
                 disconnectLog, closeDone, pushes, sendFails, edgeVars>>

\* ------------------------------------------------------------ handle_close
\* Mutant of DisconnectCtx: the rooms are torn down before the callback.
DisconnectCtx_noRooms(c) ==
  [role |-> clientContexts[c].role, rooms |-> {}, clientId |-> c]

\* The context handed to onDisconnect: { ...userContext, rooms, clientId }.
DisconnectCtx(c) ==
  [role |-> clientContexts[c].role,
   rooms |-> IF c \in clientRooms THEN roomSets[c] ELSE {},
   clientId |-> c]

\* The topics the close handler passes to ws.unsubscribe: its body reads the
\* context and the room set, awaits onDisconnect and deletes three table
\* entries; it makes no unsubscribe call.
CloseUnsubscribes(c) == {}

\* Mutant of CloseTables: the live connection table keeps the socket.
CloseTables_keepConn(c) ==
  /\ clientConnections' = clientConnections
  /\ clientContexts' = [clientContexts EXCEPT ![c] = NoCtx]
  /\ clientRooms' = clientRooms \ {c}
  /\ closeDone' = [closeDone EXCEPT ![c] = TRUE]

\* clientConnections.delete / clientContexts.delete / clientRooms.delete
CloseTables(c) ==
  /\ clientConnections' = clientConnections \ {c}
  /\ clientContexts' = [clientContexts EXCEPT ![c] = NoCtx]
  /\ clientRooms' = clientRooms \ {c}
  /\ closeDone' = [closeDone EXCEPT ![c] = TRUE]

\* websocket.close -> createCloseHandler, up to the `await` of onDisconnect
\* (or to its end when there is no stored context).  The transport has
\* already closed the socket and dropped its topic subscriptions.
\* mode: how the user's onDisconnect behaves, as for Open.  The log entry
\* also keeps what a getContext() call made by onDisconnect yields.
Close(c, mode) ==
  /\ microQ = <<>>
  /\ sock[c] = "open"
  /\ sock' = [sock EXCEPT ![c] = "closed"]
  /\ subscribed' = [subscribed EXCEPT ![c] = {}]
  /\ IF clientContexts[c] # NoCtx
     THEN /\ disconnectLog' = [disconnectLog EXCEPT ![c] =
               Append(@, [ctx |-> DisconnectCtx(c), at |-> Len(started),
                          registered |-> c \in clientConnections /\ c \in clientRooms,
                          late |-> <<>>, store |-> GetContext(Bundle, 0)])]
          /\ microQ' = IF mode = "sync" THEN <<Cont("close", c, 0, TRUE)>> ELSE <<>>
          /\ io' = IF mode = "async" THEN io \cup {Cont("close", c, 0, TRUE)} ELSE io
          /\ UNCHANGED <<clientConnections, clientContexts, clientRooms, closeDone>>
     ELSE /\ mode = "sync"
          /\ CloseTables(c)
          /\ UNCHANGED <<disconnectLog, microQ, io>>
  /\ UNCHANGED <<roomSets, pendingContexts, initPromise, initWaiters, sink, tasks,
                 started, connectCalls, connectOutcome, pushes, sendFails, edgeVars>>

\* What onDisconnect reads from disconnectCtx.rooms: `rooms ?? new Set()` is
\* the Set of the room registry itself, not a copy of it.
DisconnectSees(c) == roomSets[c]

\* After `await Promise.resolve(onDisconnect(..))`: the three deletes
\* (not reached when onDisconnect rejected).  The log entry gets the rooms
\* onDisconnect saw when it came to its end.
CloseCont(c) ==
  /\ microQ # <<>>
  /\ Head(microQ).k = "close" /\ Head(microQ).c = c
  /\ microQ' = Tail(microQ)
  /\ IF Head(microQ).ok
     THEN /\ CloseTables(c)
          /\ disconnectLog' = [disconnectLog EXCEPT
                                  ![c][Len(disconnectLog[c])].late = <<DisconnectSees(c)>>]
     ELSE UNCHANGED <<clientConnections, clientContexts, clientRooms, closeDone,
                      disconnectLog>>
  /\ UNCHANGED <<sock, roomSets, pendingContexts, initPromise, initWaiters,
                 subscribed, sink, tasks, io, started, connectCalls, connectOutcome,
                 pushes, sendFails, edgeVars>>

\* ------------------------------------------------------------ server.send
\* A push issued outside any request: server.send.message(p).broadcast(),
\* server.send.message(p).to(targets) or server.send.message(p).toRoom(targets).
ServerPush(kind, targets, limit) ==
  /\ microQ = <<>>
  /\ Len(pushes) < limit
  /\ pushes' = Append(pushes, [kind |-> kind, targets |-> targets,
                               closed |-> {c \in Clients : closeDone[c]},
                               fails |-> clientConnections \cap sendFails])
  /\ Commit(CASE kind = "broadcast" -> SendBroadcast(Bundle, Message("message", <<"push">>))
              [] kind = "toRoom" -> SendToRoom(Bundle, targets, Message("message", <<"push">>))
              [] OTHER -> SendTo(Bundle, targets, Message("message", <<"push">>)))
  /\ UNCHANGED <<sock, clientConnections, clientContexts, clientRooms,
                 pendingContexts, initPromise, initWaiters, connectCalls,
                 connectOutcome, disconnectLog, closeDone, sendFails, edgeVars>>

\* The sink of a connection starts throwing on send (try/catch in to and
\* broadcast, the outer catch of the message handler).
Break(c) ==
  /\ microQ = <<>>
  /\ sock[c] = "open"
  /\ c \notin sendFails
  /\ sendFails' = sendFails \cup {c}
  /\ UNCHANGED <<sock, clientConnections, clientContexts, clientRooms, roomSets,
                 pendingContexts, initPromise, initWaiters, subscribed, sink, tasks,
                 microQ, io, started, connectCalls, connectOutcome, disconnectLog,
                 closeDone, pushes, edgeVars>>

\* ------------------------------------------------------------ specifications
\* Frames of the dispatch runs: one valid frame per incoming route, with and
\* without a non-empty rpcId, plus a frame that takes the schema default, an
\* invalid one and one whose rpcId is the empty string.
DispatchRoutes == {"greet", "test.compute", "test.adminOnly", "rooms.join", "rooms.leave"}

DispatchFrames ==
  [type : DispatchRoutes, payload : {"r1"}, rpcId : {Undefined, "x"}]
    \cup {[type |-> "test.compute", payload |-> Undefined, rpcId |-> Undefined],
          [type |-> "greet", payload |-> "bad", rpcId |-> "x"],
          [type |-> "greet", payload |-> "r1", rpcId |-> ""]}

\* Frames of the room runs.
RoomFrames == [type : {"rooms.join", "rooms.leave"}, payload : Rooms, rpcId : {Undefined}]

Microtask ==
  \/ \E c \in Clients : InitSettle(c)
  \/ \E c \in Clients : OpenCont(c)
  \/ \E t \in 1..Len(tasks) : TaskStep(t)
  \/ \E c \in Clients : CloseCont(c)

\* Connections, frames of every route, RPC.
Next ==
  \/ \E c \in Clients, mode \in {"sync", "async", "throw"} : Open(c, mode)
  \/ \E x \in io, ok \in BOOLEAN : IoComplete(x, ok)
  \/ \E c \in Clients, frame \in DispatchFrames : Receive(c, frame, MaxFrames)
  \/ \E c \in Clients : Close(c, "sync")
  \/ Microtask

Spec == Init /\ [][Next]_vars

\* Connections and room frames.
NextRooms ==
  \/ \E c \in Clients, mode \in {"sync", "async"} : Open(c, mode)
  \/ \E x \in io, ok \in BOOLEAN : IoComplete(x, ok)
  \/ \E c \in Clients, frame \in RoomFrames : Receive(c, frame, MaxRoomFrames)
  \/ \E c \in Clients, mode \in {"sync", "async"} : Close(c, mode)
  \/ Microtask

SpecRooms == Init /\ [][NextRooms]_vars

\* Connection lifecycle of every kind, server pushes.
NextLifecycle ==
  \/ \E c \in Clients, mode \in {"sync", "async", "throw"} : Open(c, mode)
  \/ \E x \in io, ok \in BOOLEAN : IoComplete(x, ok)
  \/ \E c \in Clients, frame \in RoomFrames : Receive(c, frame, MaxLifeFrames)
  \/ \E c \in Clients, mode \in {"sync", "async", "throw"} : Close(c, mode)
  \/ \E kind \in {"broadcast", "to"}, target \in Clients : ServerPush(kind, <<target>>, MaxPush)
  \/ Microtask

SpecLifecycle == Init /\ [][NextLifecycle]_vars

\* Frames of the error runs: RPC frames whose payload is valid, has issues or
\* makes the validator throw, and an RPC whose handler awaits I/O.
ErrorFrames ==
  [type : {"greet"}, payload : {"r1", "bad", "boom"}, rpcId : {"x"}]
    \cup [type : {"delayedEcho"}, payload : {"r1"}, rpcId : {"y"}]

\* Connections, failing frames, handlers awaiting I/O that may fail.
NextErrors ==
  \/ \E c \in Clients, mode \in {"sync", "async"} : Open(c, mode)
  \/ \E x \in io, ok \in BOOLEAN : IoComplete(x, ok)
  \/ \E c \in Clients, frame \in ErrorFrames : Receive(c, frame, MaxErrorFrames)
  \/ \E c \in Clients : Close(c, "sync")
  \/ Microtask

SpecErrors == Init /\ [][NextErrors]_vars

\* Frames of the in-flight runs: handlers that go on after a timer, and a join.
InflightFrames ==
  [type : {"delayedJoin", "delayedTrigger", "rooms.join"}, payload : {"r1"},
   rpcId : {Undefined}]

\* Connections closed while a handler awaits its timer.
NextInflight ==
  \/ \E c \in Clients : Open(c, "sync")
  \/ \E x \in io : IoComplete(x, TRUE)
  \/ \E c \in Clients, frame \in InflightFrames : Receive(c, frame, MaxInflightFrames)
  \/ \E c \in Clients, mode \in {"sync", "async"} : Close(c, mode)
  \/ Microtask

SpecInflight == Init /\ [][NextInflight]_vars

\* The runtime tables with either kind of adapter.
InitAnyAdapter == publishFn \in BOOLEAN /\ InitEdge /\ InitTables

\* Frames of the shout runs: joins, and a message to the room through the
\* send proxy and through rooms.broadcast.
ShoutFrames ==
  [type : {"rooms.join", "rooms.leave", "rooms.message", "rooms.shout"}, payload : {"r1"},
   rpcId : {Undefined}]

\* Connections, room frames and room broadcasts.
NextShout ==
  \/ \E c \in Clients : Open(c, "sync")
  \/ \E c \in Clients, frame \in ShoutFrames : Receive(c, frame, MaxShoutFrames)
  \/ \E c \in Clients : Close(c, "sync")
  \/ Microtask

SpecShout == InitAnyAdapter /\ [][NextShout]_vars

\* Frames of the ambient runs: a route with two middlewares, a handler that
\* awaits a timer, a plain RPC.
AmbientFrames ==
  {[type |-> "test.compute", payload |-> "r1", rpcId |-> Undefined],
   [type |-> "test.adminOnly", payload |-> "r1", rpcId |-> Undefined],
   [type |-> "delayedEcho", payload |-> "r1", rpcId |-> "y"],
   [type |-> "greet", payload |-> "r1", rpcId |-> "x"]}

\* Connections and requests of several connections, interleaved at timers.
NextAmbient ==
  \/ \E c \in Clients : Open(c, "sync")
  \/ \E x \in io : IoComplete(x, TRUE)
  \/ \E c \in Clients, frame \in AmbientFrames : Receive(c, frame, MaxAmbientFrames)
  \/ \E c \in Clients : Close(c, "sync")
  \/ Microtask

SpecAmbient == Init /\ [][NextAmbient]_vars

\* Frames of the middleware runs: the three routes that declare middlewares,
\* as RPCs and as plain messages.
MiddlewareFrames ==
  [type : {"test.compute", "test.adminOnly", "test.gated"}, payload : {"r1"},
   rpcId : {Undefined, "x"}]

\* The admin and the user connection call the routes with middlewares.
NextMiddleware ==
  \/ \E c \in Clients : Open(c, "sync")
  \/ \E c \in Clients, frame \in MiddlewareFrames : Receive(c, frame, MaxMiddlewareFrames)
  \/ \E c \in Clients : Close(c, "sync")
  \/ Microtask

SpecMiddleware == Init /\ [][NextMiddleware]_vars

\* Frames of the malformed runs: text that is no frame, frames naming no
\* route or an outgoing route, and a valid RPC.
MalformedFrames ==
  [kind : MalformedKinds, type : {Undefined}, payload : {"r1"}, rpcId : {"x"}]
    \cup [type : {"nope", "message"}, payload : {"r1"}, rpcId : {"x"}]
    \cup {[type |-> "greet", payload |-> "r1", rpcId |-> "x"]}

\* Connections and malformed frames.
NextMalformed ==
  \/ \E c \in Clients, mode \in {"sync", "async"} : Open(c, mode)
  \/ \E x \in io : IoComplete(x, TRUE)
  \/ \E c \in Clients, frame \in MalformedFrames : Receive(c, frame, MaxMalformedFrames)
  \/ \E c \in Clients : Close(c, "sync")
  \/ Microtask

SpecMalformed == Init /\ [][NextMalformed]_vars

\* Frames of the send runs: a broadcast through the definition-time proxy and
\* private messages to a connected, to the own and to an unknown client id.
SendFrames ==
  [type : {"trigger"}, payload : {"r1"}, rpcId : {Undefined}]
    \cup [type : {"chat.private"}, payload : {"c1", "c2", "ghost"}, rpcId : {Undefined}]

\* Target lists of server.send...to(): one id, both ids, an unknown id first.
ToLists == {<<"c1">>, <<"c2", "c1">>, <<"ghost", "c2">>, <<"c1", "ghost", "c2">>}

\* Connections, throwing sinks, sends to ids and broadcasts.
NextSend ==
  \/ \E c \in Clients, mode \in {"sync", "async"} : Open(c, mode)
  \/ \E x \in io : IoComplete(x, TRUE)
  \/ \E c \in Clients, frame \in SendFrames : Receive(c, frame, MaxSendFrames)
  \/ \E c \in Clients : Close(c, "sync")
  \/ \E c \in Clients : Break(c)
  \/ \E targets \in ToLists : ServerPush("to", targets, MaxSendPush)
  \/ ServerPush("broadcast", <<>>, MaxSendPush)
  \/ Microtask

SpecSend == Init /\ [][NextSend]_vars

\* Frames of the topic runs.
TopicFrames ==
  [type : {"rooms.join", "rooms.leave"}, payload : Rooms, rpcId : {Undefined}]
    \cup {[type |-> "rooms.message", payload |-> "r1", rpcId |-> Undefined]}

\* Room lists of server.send...toRoom().
RoomLists == {<<"r1">>, <<"r1", "r2">>}

\* Connections, room frames, publishes to room topics.
NextTopics ==
  \/ \E c \in Clients : Open(c, "sync")
  \/ \E c \in Clients, frame \in TopicFrames : Receive(c, frame, MaxTopicFrames)
  \/ \E c \in Clients : Close(c, "sync")
  \/ \E targets \in RoomLists : ServerPush("toRoom", targets, MaxTopicPush)
  \/ Microtask

SpecTopics == Init /\ [][NextTopics]_vars

\* The topic runs on an adapter without publish.
SpecNoPublish == InitNoPublish /\ [][NextTopics]_vars

\* ------------------------------------------------------------ handshake
\* A request: its protocol headers and its URL query parameters, each a map
\* from the keys to a value or Undefined (absent).
HandshakeKeys == {"role", "x-trace"}

Requests ==
  {[hdr |-> [k \in HandshakeKeys |-> IF k = "role" THEN hr ELSE ht],
    qry |-> [k \in HandshakeKeys |-> IF k = "role" THEN qr ELSE qt]] :
     hr \in {Undefined, "user", "root", "boom"}, qr \in {Undefined, "admin", "root"},
     ht \in {Undefined, "t1"}, qt \in {Undefined, "t2"}}

\* Mutant of MergeBag: on a conflict the protocol header wins.
MergeBag_headerWins(req) ==
  [k \in HandshakeKeys |-> IF req.hdr[k] # Undefined THEN req.hdr[k] ELSE req.qry[k]]

\* req.headers.forEach(set); url.searchParams.forEach(set): the second pass
\* overwrites the keys of the first.
MergeBag(req) ==
  [k \in HandshakeKeys |-> IF req.qry[k] # Undefined THEN req.qry[k] ELSE req.hdr[k]]

NoHeaders == [role |-> Undefined]

\* headersSchema["~standard"].validate(headers) for
\* z.object({ role: z.enum(["admin", "user"]).default("user") }): unknown keys
\* are stripped, an absent role becomes "user"; "boom" stands for a schema
\* whose validate throws.
HeadersValidate(bag) ==
  CASE bag["role"] = "boom" ->
         [threw |-> TRUE, issues |-> <<>>, value |-> NoHeaders]
    [] bag["role"] = Undefined ->
         [threw |-> FALSE, issues |-> <<>>, value |-> [role |-> "user"]]
    [] bag["role"] \in {"admin", "user"} ->
         [threw |-> FALSE, issues |-> <<>>, value |-> [role |-> bag["role"]]]
    [] OTHER ->
         [threw |-> FALSE, issues |-> <<[path |-> "role", received |-> bag["role"]]>>,
          value |-> NoHeaders]

\* Date.now() and the base-36 digits of Math.random() after "0.".
Times == {1000, 1001}
RandomDraws == {<<7, 1, 2, 3, 4, 5, 6, 7, 8, 9>>, <<7, 1, 2, 3, 4, 5, 6, 7, 8, 35>>, <<18>>}

ToString36(rnd) == <<"0", ".">> \o rnd

\* String.prototype.substr(start, length)
Substr(str, start, length) ==
  SubSeq(str, start + 1, IF start + length < Len(str) THEN start + length ELSE Len(str))

NoClientId == <<>>

\* `client_${Date.now()}_${Math.random().toString(36).substr(2, 9)}`
GenerateClientId(now, rnd) == <<"client", now, Substr(ToString36(rnd), 2, 9)>>

NoBody == [json |-> FALSE, error |-> "", details |-> <<>>]

\* Mutant of UpgradeHandler: the issues are ignored and the request is accepted.
UpgradeHandler_acceptIssues(bag, now, rnd) ==
  LET result == HeadersValidate(bag)
  IN IF result.threw
     THEN [success |-> FALSE, status |-> 400,
           body |-> [json |-> FALSE, error |-> "Header validation error", details |-> <<>>],
           clientId |-> NoClientId, headers |-> NoHeaders]
     ELSE [success |-> TRUE, status |-> 0, body |-> NoBody,
           clientId |-> GenerateClientId(now, rnd), headers |-> result.value]

\* createUpgradeHandler: validate, then reject with the issues or allocate an id.
UpgradeHandler(bag, now, rnd) ==
  LET result == HeadersValidate(bag)
  IN IF result.threw
     THEN [success |-> FALSE, status |-> 400,
           body |-> [json |-> FALSE, error |-> "Header validation error", details |-> <<>>],
           clientId |-> NoClientId, headers |-> NoHeaders]
     ELSE IF result.issues # <<>>
     THEN [success |-> FALSE, status |-> 400,
           body |-> [json |-> TRUE, error |-> "Invalid headers", details |-> result.issues],
           clientId |-> NoClientId, headers |-> NoHeaders]
     ELSE [success |-> TRUE, status |-> 0, body |-> NoBody,
           clientId |-> GenerateClientId(now, rnd), headers |-> result.value]

\* The adapter's fetch: merge, onUpgrade, then a Response or server.upgrade
\* (up: whether the runtime performs the upgrade).  Status 101 stands for the
\* switch of protocols.
Fetch(req, now, rnd, up) ==
  /\ Len(upgrades) < MaxUpgrades
  /\ \A i \in DOMAIN upgrades : upgrades[i].at <= now
  /\ LET bag == MergeBag(req)
         result == UpgradeHandler(bag, now, rnd)
         response ==
           IF ~result.success
           THEN [status |-> result.status, body |-> result.body,
                 contentType |-> IF result.body.json THEN "application/json" ELSE Undefined]
           ELSE IF up THEN [status |-> 101, body |-> NoBody, contentType |-> Undefined]
           ELSE [status |-> 500,
                 body |-> [json |-> FALSE, error |-> "WebSocket upgrade failed",
                           details |-> <<>>],
                 contentType |-> Undefined]
     IN upgrades' = Append(upgrades,
          [req |-> req, at |-> now, bag |-> bag, result |-> result,
           response |-> response, connect |-> <<>>])
  /\ UNCHANGED <<runtimeVars, publishFn, wsOpen, registered, built, proxyCache, evals, sockets, socket, hook>>

\* websocket.open -> onOpen(adapter, ws.data.clientId, ws.data.headers):
\* clientConnections.set(clientId, ws) and onConnect(headers, clientId).
WsOpen(i) ==
  /\ i \in DOMAIN upgrades
  /\ upgrades[i].response.status = 101
  /\ upgrades[i].connect = <<>>
  /\ LET id == upgrades[i].result.clientId
     IN /\ registered' = {p \in registered : p[1] # id} \cup {<<id, i>>}
        /\ upgrades' = [upgrades EXCEPT ![i].connect =
                          <<[headers |-> upgrades[i].result.headers, clientId |-> id]>>]
  /\ wsOpen' = wsOpen \cup {i}
  /\ UNCHANGED <<runtimeVars, publishFn, built, proxyCache, evals, sockets, socket, hook>>

\* websocket.close -> onClose(adapter, clientId): clientConnections.delete(clientId).
WsClose(i) ==
  /\ i \in wsOpen
  /\ wsOpen' = wsOpen \ {i}
  /\ registered' = {p \in registered : p[1] # upgrades[i].result.clientId}
  /\ UNCHANGED <<runtimeVars, publishFn, upgrades, built, proxyCache, evals, sockets, socket, hook>>

NextUpgrade ==
  \/ \E req \in Requests, now \in Times, rnd \in RandomDraws, up \in BOOLEAN :
       Fetch(req, now, rnd, up)
  \/ \E i \in 1..MaxUpgrades : WsOpen(i)
  \/ \E i \in 1..MaxUpgrades : WsClose(i)

SpecUpgrade == Init /\ [][NextUpgrade]_vars

\* ------------------------------------------------------------ startup
\* A router object, as the message definitions flattenRouter meets in key
\* order: the path of keys leading to the definition, its _direction and
\* whether it carries a handler function.  A key is the sequence of its
\* dot-separated atoms, so the key "a.b" is <<"a", "b">> and the nested
\* { a: { b } } is the path << <<"a">>, <<"b">> >>.
RouterPaths ==
  {<< <<"a">>, <<"b">> >>, << <<"a", "b">> >>, << <<"c">> >>,
   << <<"__rpc_res">> >>, << <<"c">>, <<"__rpc_res">> >>}

RouterDefs == [path : RouterPaths, direction : {"in", "out"}, handler : BOOLEAN]

\* An object has each key once, and a key holds a definition or a nested
\* router, not both.
Coexist(d, e) ==
  /\ d.path # e.path
  /\ ~(Len(e.path) > Len(d.path) /\ SubSeq(e.path, 1, Len(d.path)) = d.path)
  /\ ~(Len(d.path) > Len(e.path) /\ SubSeq(d.path, 1, Len(e.path)) = e.path)

Routers ==
  {<<d>> : d \in RouterDefs}
    \cup {r \in RouterDefs \X RouterDefs : Coexist(r[1], r[2])}

\* nextPath.join(".")
RECURSIVE JoinDot(_)
JoinDot(path) == IF path = <<>> THEN <<>> ELSE Head(path) \o JoinDot(Tail(path))

\* flattenRouter: out[flatKey] = entry for every definition met; the entry
\* gets the handler only for an "in" definition with a handler function.
RECURSIVE FlattenRouter(_, _)
FlattenRouter(defs, out) ==
  IF defs = <<>> THEN out
  ELSE LET def == Head(defs)
           flatKey == JoinDot(def.path)
           entry == [key |-> flatKey,
                     handler |-> def.direction = "in" /\ def.handler]
       IN FlattenRouter(Tail(defs), {e \in out : e.key # flatKey} \cup {entry})

\* initializeHandlerMaps: handlerMap has the keys whose entry has a handler,
\* metaMap has every key.
InitializeHandlerMaps(flatRouter) ==
  [handlerMap |-> {e.key : e \in {x \in flatRouter : x.handler}},
   metaMap |-> {e.key : e \in flatRouter}]

\* Whether building a server from the router throws: flattenRouter and
\* initializeHandlerMaps have no throw statement and no check of the router.
BuildThrows(router) == FALSE

\* createServer / createBunServer, up to the dispatch table.
Build(router) ==
  /\ Len(built) < MaxBuilds
  /\ built' = Append(built,
       IF BuildThrows(router)
       THEN [router |-> router, threw |-> TRUE, handlerMap |-> {}, metaMap |-> {}]
       ELSE LET maps == InitializeHandlerMaps(FlattenRouter(router, {}))
            IN [router |-> router, threw |-> FALSE,
                handlerMap |-> maps.handlerMap, metaMap |-> maps.metaMap])
  /\ UNCHANGED <<runtimeVars, publishFn, upgrades, wsOpen, registered, proxyCache, evals, sockets, socket, hook>>

NextBuild == \E router \in Routers : Build(router)

SpecBuild == Init /\ [][NextBuild]_vars

\* ------------------------------------------------------------ client
\* The client's proxyCache is a set of pairs <<key, proxy>>, a proxy being
\* known by the number of its allocation; the client is built with
\* send = createProxy(["send"]) and on = createProxy(["on"]).
\* A property name is the sequence of its dot-separated atoms.
ProxyRoots == {"send", "on"}
ProxyProps == {<<"a">>, <<"b">>, <<"a", "b">>, <<"then">>}
ProxyExprs == {<<x>> : x \in ProxyProps} \cup (ProxyProps \X ProxyProps)

\* path.join(".")
RECURSIVE ProxyKey(_)
ProxyKey(path) == IF path = <<>> THEN <<>> ELSE Head(path) \o ProxyKey(Tail(path))

RECURSIVE MaxOf(_)
MaxOf(S) ==
  IF S = {} THEN 0
  ELSE LET x == CHOOSE y \in S : TRUE
           m == MaxOf(S \ {x})
       IN IF x > m THEN x ELSE m

\* new Proxy(...): an object distinct from every earlier one.
NewProxy(cache) == 1 + MaxOf({p[2] : p \in cache})

\* Mutant of CreateProxy: the cache is never consulted.
CreateProxy_noCache(cache, path) ==
  LET key == ProxyKey(path)
      proxy == NewProxy(cache)
  IN [cache |-> {p \in cache : p[1] # key} \cup {<<key, proxy>>}, proxy |-> proxy]

\* createProxy(path): the cached proxy of the key, or a new one that is cached.
CreateProxy(cache, path) ==
  LET key == ProxyKey(path)
  IN IF \E p \in cache : p[1] = key
     THEN [cache |-> cache, proxy |-> (CHOOSE p \in cache : p[1] = key)[2]]
     ELSE LET proxy == NewProxy(cache)
          IN [cache |-> {p \in cache : p[1] # key} \cup {<<key, proxy>>}, proxy |-> proxy]

\* The value of a property chain on a proxy, by the `get` trap: "then" is
\* undefined, any other name is createProxy([...path, prop]); a property of
\* undefined is a TypeError.
RECURSIVE GetChain(_, _, _, _)
GetChain(cache, proxy, path, props) ==
  IF props = <<>> THEN [cache |-> cache, value |-> [kind |-> "proxy", id |-> proxy]]
  ELSE IF Head(props) = <<"then">>
  THEN [cache |-> cache,
        value |-> [kind |-> IF Tail(props) = <<>> THEN "undefined" ELSE "TypeError",
                   id |-> 0]]
  ELSE LET r == CreateProxy(cache, Append(path, Head(props)))
       IN GetChain(r.cache, r.proxy, Append(path, Head(props)), Tail(props))

\* One evaluation of client.<root>.<props>.
Eval(root, props) ==
  /\ Len(evals) < MaxEvals
  /\ LET base == (CHOOSE p \in proxyCache : p[1] = <<root>>)[2]
         r == GetChain(proxyCache, base, <<<<root>>>>, props)
     IN /\ proxyCache' = r.cache
        /\ evals' = Append(evals, [root |-> root, props |-> props, value |-> r.value])
  /\ UNCHANGED <<runtimeVars, publishFn, upgrades, wsOpen, registered, built, sockets, socket, hook>>

NextClient == \E root \in ProxyRoots, props \in ProxyExprs : Eval(root, props)

SpecClient == Init /\ [][NextClient]_vars

\* ================================================================ claims
TaskIds == DOMAIN tasks

\* The frame's payload passes the route's schema.
ValidFrame(t) ==
  LET v == Validate(tasks[t].type, tasks[t].payload) IN ~v.issues /\ ~v.threw

\* The processing of frame t has ended.
Done(t) == tasks[t].pc = "done"

\* C1 (as stated): a valid frame for a route with an incoming handler, received
\* on a connection whose context is published, gets exactly one invocation of
\* that route's handler, with the value produced by the schema.
C1_Original ==
  \A t \in TaskIds :
    /\ tasks[t].hcalls <= 1
    /\ (Done(t) /\ HasHandler(tasks[t].type) /\ ValidFrame(t) /\ tasks[t].published)
         => /\ tasks[t].hcalls = 1
            /\ tasks[t].hroute = tasks[t].type
            /\ tasks[t].input = Validate(tasks[t].type, tasks[t].payload).value

\* C1 (amended): the same, for frames none of whose route's middlewares throws;
\* a frame whose middleware throws gets no handler invocation.
C1_Routing ==
  \A t \in TaskIds :
    /\ tasks[t].hcalls <= 1
    /\ (Done(t) /\ HasHandler(tasks[t].type) /\ ValidFrame(t) /\ tasks[t].published)
         => IF tasks[t].out = "middleware threw"
            THEN tasks[t].hcalls = 0
            ELSE /\ tasks[t].hcalls = 1
                 /\ tasks[t].hroute = tasks[t].type
                 /\ tasks[t].input = Validate(tasks[t].type, tasks[t].payload).value
                 /\ Len(SelectSeq(started, LAMBDA x : x = t)) = 1

\* C1 witness: a frame that took the schema default reached its handler.
C1_Witness ==
  \E t \in TaskIds :
    /\ Done(t) /\ tasks[t].published /\ tasks[t].hcalls = 1
    /\ tasks[t].type = "test.compute"
    /\ tasks[t].payload = Undefined /\ tasks[t].input = "ping"

IsRpcRes(m) == m.type = "__rpc_res"

\* Frames of connection c whose handler returned.
Returned(c) == {t \in TaskIds : tasks[t].conn = c /\ Done(t) /\ tasks[t].out = "ok"}

ReplyFrame(t) ==
  [type |-> "__rpc_res", payload |-> tasks[t].result, rpcId |-> tasks[t].rpcId]

\* The connection's sink holds the reply of every frame in ts and no other
\* __rpc_res frame.
RepliesAre(c, ts) ==
  /\ Len(SelectSeq(sink[c], IsRpcRes)) = Cardinality(ts)
  /\ \A t \in ts : \E i \in DOMAIN sink[c] : sink[c][i] = ReplyFrame(t)

\* C2: every frame carrying an rpcId whose handler returned has exactly one
\* __rpc_res frame with that rpcId and the handler's return value, on its own
\* connection's sink; no other frame produces one.
C2_Claim ==
  \A c \in Clients :
    RepliesAre(c, {t \in Returned(c) : tasks[t].rpcId # Undefined})

\* Position of frame t's handler invocation among all handler invocations.
Pos(t) == CHOOSE i \in DOMAIN started : started[i] = t

HandlerRan(t) == tasks[t].hcalls > 0

\* C3 (as stated): a frame received while on_connect is pending is deferred,
\* not dropped: once the context is published its handler is invoked exactly
\* once, and no frame of the connection received after it has its handler
\* invoked before it.
C3_Claim ==
  \A i \in TaskIds :
    tasks[i].deferred =>
      /\ (/\ connectOutcome[tasks[i].conn] = "returned"
          /\ Done(i) /\ ValidFrame(i) /\ tasks[i].out # "middleware threw")
           => tasks[i].hcalls = 1
      /\ \A j \in TaskIds :
           (i < j /\ tasks[j].conn = tasks[i].conn /\ HandlerRan(i) /\ HandlerRan(j))
             => Pos(i) < Pos(j)

\* C4: a middleware or handler runs for a connection only after that
\* connection's on_connect has returned and its context has been stored; the
\* context it is given is the stored one.
C4_NoHandlerBeforeConnect ==
  \A t \in TaskIds :
    (tasks[t].mwCalls > 0 \/ HandlerRan(t))
      => /\ connectOutcome[tasks[t].conn] = "returned"
         /\ tasks[t].ctx.clientId = tasks[t].conn

\* C4 witness: a frame received while on_connect was pending had its handler
\* invoked after on_connect returned.
C4_Witness ==
  \E t \in TaskIds :
    tasks[t].deferred /\ HandlerRan(t) /\ connectOutcome[tasks[t].conn] = "returned"

\* C8 (as stated): two frames of one connection that both reach their handlers
\* have them invoked in receive order.
C8_Claim ==
  \A i, j \in TaskIds :
    (i < j /\ tasks[i].conn = tasks[j].conn /\ HandlerRan(i) /\ HandlerRan(j))
      => Pos(i) < Pos(j)

\* C5 (as stated): every accepted connection has on_connect invoked exactly
\* once and, once its close has been handled, on_disconnect invoked exactly
\* once, also when the close arrived while on_connect was still pending;
\* on_disconnect is never invoked twice nor without on_connect.
C5_Claim ==
  \A c \in Clients :
    /\ connectCalls[c] <= 1
    /\ (sock[c] # "new") => connectCalls[c] = 1
    /\ Len(disconnectLog[c]) <= 1
    /\ (Len(disconnectLog[c]) = 1) => connectCalls[c] = 1
    /\ (closeDone[c] /\ connectOutcome[c] # "threw") => Len(disconnectLog[c]) = 1

\* on_disconnect was invoked for c and handle_close ran to its end.
DisconnectReturned(c) == closeDone[c] /\ Len(disconnectLog[c]) > 0

C6_Clean ==
  \A c \in Clients :
    DisconnectReturned(c) =>
      /\ c \notin clientConnections
      /\ clientContexts[c] = NoCtx
      /\ c \notin clientRooms
      /\ subscribed[c] = {}

\* C6: after on_disconnect has returned for a connection, the connection is in
\* no room and in neither the connection table nor the context table, and no
\* later step (a broadcast, a to([id]), a room publish) writes a frame to it.
C6_DisconnectCleanup ==
  /\ []C6_Clean
  /\ [][\A c \in Clients : DisconnectReturned(c) => sink'[c] = sink[c]]_vars

\* C6 witness: a broadcast pushed after a connection's on_disconnect returned
\* reached the other connection and not the closed one.
C6_Witness ==
  \E c, d \in Clients, i \in DOMAIN pushes :
    /\ c # d /\ DisconnectReturned(c)
    /\ pushes[i].kind = "broadcast" /\ c \in pushes[i].closed
    /\ \E k \in DOMAIN sink[d] : sink[d][k] = Message("message", <<"push">>)
    /\ \A k \in DOMAIN sink[c] : sink[c][k] # Message("message", <<"push">>)

\* The rooms connection c joined and did not leave afterwards, over the first
\* n handler invocations.
RECURSIVE RoomsAfter(_, _)
RoomsAfter(c, n) ==
  IF n = 0 THEN {}
  ELSE LET t == tasks[started[n]]
           prev == RoomsAfter(c, n - 1)
       IN CASE t.conn = c /\ t.type = "rooms.join" -> prev \cup {t.input}
            [] t.conn = c /\ t.type = "rooms.leave" -> prev \ {t.input}
            [] OTHER -> prev

\* C7: the context passed to on_disconnect holds the connection's final
\* subscription set (the rooms joined and not left since), the user context
\* returned by on_connect and the clientId, and the registry entries of the
\* connection are still in place when on_disconnect is invoked.
C7_DisconnectSeesFinalRooms ==
  \A c \in Clients : \A i \in DOMAIN disconnectLog[c] :
    LET e == disconnectLog[c][i]
    IN /\ e.ctx.rooms = RoomsAfter(c, e.at)
       /\ e.ctx.rooms = RoomsAfter(c, Len(started))
       /\ e.ctx.role = OnConnectValue(c)
       /\ e.ctx.clientId = c
       /\ e.registered

\* C7 witness: on_disconnect saw {r2} after join r1, join r2, leave r1.
C7_Witness ==
  \E c \in Clients :
    /\ Len(disconnectLog[c]) = 1
    /\ disconnectLog[c][1].ctx.rooms = {"r2"}
    /\ disconnectLog[c][1].at = 3
    /\ \A n \in 1..3 : tasks[started[n]].conn = c

\* The frames whose processing advances in a step.
Advanced == {t \in DOMAIN tasks' : t \notin DOMAIN tasks \/ tasks'[t] # tasks[t]}

\* C9: processing a frame of connection A leaves every other connection's
\* subscription set, topics and stored context untouched, and the middleware
\* and handler run for A's frame get A's own context and clientId.
C9_Isolation ==
  /\ [](\A t \in TaskIds :
          (tasks[t].mwCalls > 0 \/ HandlerRan(t))
            => /\ tasks[t].ctx.clientId = tasks[t].conn
               /\ tasks[t].ctx.role = OnConnectValue(tasks[t].conn))
  /\ [][\A b \in Clients :
          (Advanced # {} /\ \A t \in Advanced : tasks'[t].conn # b)
            => /\ roomSets'[b] = roomSets[b]
               /\ subscribed'[b] = subscribed[b]
               /\ clientContexts'[b] = clientContexts[b]]_vars

\* C9 witness: two connections with published contexts each joined a
\* different room.
C9_Witness ==
  /\ roomSets["c1"] = {"r1"} /\ roomSets["c2"] = {"r2"}
  /\ clientContexts["c1"] # NoCtx /\ clientContexts["c2"] # NoCtx
  /\ \E t, u \in TaskIds :
       /\ tasks[t].conn = "c1" /\ HandlerRan(t)
       /\ tasks[u].conn = "c2" /\ HandlerRan(u)

\* C10: a join of a room already joined and a leave of a room not joined
\* leave the subscription set unchanged; otherwise join adds the room and a
\* single leave removes it, however many joins preceded it.
C10_IdempotentRooms ==
  [][Len(started') = Len(started) + 1 =>
       LET t == tasks'[started'[Len(started')]]
           c == t.conn
           r == t.input
       IN /\ (t.type = "rooms.join" /\ r \in roomSets[c]) => roomSets'[c] = roomSets[c]
          /\ (t.type = "rooms.join" /\ r \notin roomSets[c]) => roomSets'[c] = roomSets[c] \cup {r}
          /\ (t.type = "rooms.leave" /\ r \notin roomSets[c]) => roomSets'[c] = roomSets[c]
          /\ (t.type = "rooms.leave" /\ r \in roomSets[c]) => roomSets'[c] = roomSets[c] \ {r}]_vars

\* C10 witness: join r1, join r1, leave r1 on one connection ended with an
\* empty subscription set.
C10_Witness ==
  \E c \in Clients :
    /\ Len(started) = 3 /\ roomSets[c] = {}
    /\ \A n \in 1..3 : tasks[started[n]].conn = c /\ tasks[started[n]].input = "r1"
    /\ tasks[started[1]].type = "rooms.join"
    /\ tasks[started[2]].type = "rooms.join"
    /\ tasks[started[3]].type = "rooms.leave"

\* C11: in any request of a connection, rooms.has(r) and rooms.current show
\* exactly the rooms that earlier requests of the same connection joined and
\* that none has left since.
C11_RoomsPersist ==
  \A t \in TaskIds :
    HandlerRan(t) =>
      LET before == RoomsAfter(tasks[t].conn, Pos(t) - 1)
      IN /\ tasks[t].current = before
         /\ tasks[t].has = (tasks[t].input \in before)

\* C11 witness: a rooms.message request found the room joined by an earlier
\* request of its connection and published to it.
C11_Witness ==
  \E t, u \in TaskIds :
    /\ u < t /\ tasks[u].conn = tasks[t].conn
    /\ tasks[u].type = "rooms.join" /\ tasks[u].input = "r1" /\ HandlerRan(u)
    /\ tasks[t].type = "rooms.message" /\ HandlerRan(t) /\ tasks[t].has
    /\ "r2" \in tasks[t].current
    /\ \E k \in DOMAIN sink[tasks[t].conn] : sink[tasks[t].conn][k].type = "rooms.onMessage"

\* Number of occurrences of x in the sequence seq.
Count(seq, x) == Cardinality({i \in DOMAIN seq : seq[i] = x})

Copies(msg, n) == [i \in 1..n |-> msg]

\* The step is a server.send push of the given kind.
PushStep(kind) ==
  /\ Len(pushes') = Len(pushes) + 1
  /\ pushes'[Len(pushes')].kind = kind

\* The step invokes the handler of a frame of the given route.
HandlerStep(type) ==
  /\ Len(started') = Len(started) + 1
  /\ tasks'[started'[Len(started')]].type = type

\* Every sink gains exactly the frames given by n(c), and nothing else.
SinksGain(msg, n(_)) == \A c \in Clients : sink'[c] = sink[c] \o Copies(msg, n(c))

\* C12: to(client_ids) writes the frame, once per listing, to the sink of each
\* listed id that is in the live connection table (and whose sink accepts it)
\* and to no other connection; ids that are not connected are skipped and do
\* not stop the delivery to the ids listed after them.
C12_SendTo ==
  [][/\ PushStep("to") =>
          LET ids == pushes'[Len(pushes')].targets
              n(c) == IF c \in clientConnections /\ c \notin sendFails
                      THEN Count(ids, c) ELSE 0
          IN SinksGain(Message("message", <<"push">>), n)
     /\ HandlerStep("chat.private") =>
          LET t == tasks'[started'[Len(started')]]
              n(c) == IF c \in clientConnections /\ c \notin sendFails /\ c = t.input
                      THEN 1 ELSE 0
          IN SinksGain(Message("chat.onPrivate", <<OnConnectValue(t.conn)>>), n)]_vars

\* C12 witness: to(["ghost", "c2"]) reached c2 while c1, connected and not
\* listed, received nothing.
C12_Witness ==
  \E i \in DOMAIN pushes :
    /\ pushes[i].kind = "to" /\ pushes[i].targets = <<"ghost", "c2">>
    /\ sink["c2"] = <<Message("message", <<"push">>)>>
    /\ "c1" \in clientConnections /\ "c1" \notin sendFails /\ sink["c1"] = <<>>

\* One frame for every connection of the live table whose sink accepts it.
LiveOnce(c) == IF c \in clientConnections /\ c \notin sendFails THEN 1 ELSE 0

\* C13: broadcast(), from a handler through the definition-time send proxy
\* (which resolves to ctx.send) or from server.send outside any request,
\* writes the frame exactly once to every connection in the live connection
\* table at the time of the call and to nothing else; with an empty table it
\* writes nothing.
C13_Broadcast ==
  [][/\ PushStep("broadcast") => SinksGain(Message("message", <<"push">>), LiveOnce)
     /\ HandlerStep("trigger") =>
          SinksGain(Message("message", <<tasks'[started'[Len(started')]].input>>),
                    LiveOnce)]_vars

\* C13 witness: a broadcast from a handler reached both connections, one of
\* them still waiting for its on_connect, and a server.send broadcast issued
\* before any connection had opened reached nobody.
C13_Witness ==
  \E t \in TaskIds :
    /\ tasks[t].type = "trigger" /\ HandlerRan(t)
    /\ \A c \in Clients : sink[c] = <<Message("message", <<"r1">>)>>
    /\ \E c \in Clients : connectOutcome[c] = "pending"
    /\ Len(pushes) = 1 /\ pushes[1].kind = "broadcast"
    /\ sendFails = {} /\ \A c \in Clients : sock[c] = "open"

\* Connection c is connected and has joined room r without leaving it since.
Member(c, r) == sock[c] = "open" /\ r \in RoomsAfter(c, Len(started))

\* Number of listed rooms connection c is a member of.
MemberCount(c, roomIds) ==
  Cardinality({i \in DOMAIN roomIds : Member(c, roomIds[i])})

\* C14: toRoom(room_ids) publishes the frame to each listed room, so a
\* connection receives it (once per listed room it is in) if and only if it
\* is currently a member of a listed room; connections that never joined,
\* that left or that disconnected receive nothing.  Checked for server.send
\* and for the three room handlers (join publishes after joining, leave
\* before leaving, message only when the sender is a member).
C14_SendToRoom ==
  [][/\ PushStep("toRoom") =>
          LET n(c) == MemberCount(c, pushes'[Len(pushes')].targets)
          IN SinksGain(Message("message", <<"push">>), n)
     /\ HandlerStep("rooms.message") =>
          LET t == tasks'[started'[Len(started')]]
              n(c) == IF Member(t.conn, t.input) THEN MemberCount(c, <<t.input>>) ELSE 0
          IN SinksGain(Message("rooms.onMessage", <<t.input, OnConnectValue(t.conn)>>), n)
     /\ HandlerStep("rooms.leave") =>
          LET t == tasks'[started'[Len(started')]]
              n(c) == MemberCount(c, <<t.input>>)
          IN SinksGain(Message("rooms.onLeave", <<t.input, OnConnectValue(t.conn)>>), n)
     /\ HandlerStep("rooms.join") =>
          LET t == tasks'[started'[Len(started')]]
              n(c) == IF c = t.conn THEN (IF sock[c] = "open" THEN 1 ELSE 0)
                      ELSE MemberCount(c, <<t.input>>)
          IN SinksGain(Message("rooms.onJoin", <<t.input, OnConnectValue(t.conn)>>), n)]_vars

\* C14 witness: a publish to r1 reached the connection that is in r1 and not
\* the one that joined r1 and left it again.
C14_Witness ==
  \E c, d \in Clients, t, u \in TaskIds :
    /\ c # d /\ Len(pushes) = 1 /\ pushes[1].kind = "toRoom"
    /\ Member(c, "r1") /\ sock[d] = "open" /\ ~Member(d, "r1")
    /\ tasks[t].conn = d /\ tasks[t].type = "rooms.join" /\ tasks[t].input = "r1"
    /\ tasks[u].conn = d /\ tasks[u].type = "rooms.leave" /\ tasks[u].input = "r1"
    /\ HandlerRan(t) /\ HandlerRan(u) /\ Pos(t) < Pos(u)
    /\ \E k \in DOMAIN sink[c] :
         /\ sink[c][k] = Message("message", <<"push">>)
         /\ \E j \in 1..(k - 1) : sink[c][j].type = "rooms.onLeave"
    /\ \A k \in DOMAIN sink[d] : sink[d][k] # Message("message", <<"push">>)

\* Some live connection has a throwing sink.
SomeSinkThrows == clientConnections \cap sendFails # {}

\* Connection c gains exactly n copies of msg in the step.
Gains(c, msg, n) == sink'[c] = sink[c] \o Copies(msg, n)

\* C15: within one to() or broadcast() call, a sink that throws does not keep
\* any other targeted live connection from getting the frame exactly once,
\* and the throw does not reach the caller: the handler that issued the call
\* returns normally.
C15_SendFailureIsolated ==
  /\ [][SomeSinkThrows =>
          /\ PushStep("broadcast") =>
               \A c \in clientConnections \ sendFails :
                 Gains(c, Message("message", <<"push">>), 1)
          /\ PushStep("to") =>
               \A c \in clientConnections \ sendFails :
                 Gains(c, Message("message", <<"push">>),
                       Count(pushes'[Len(pushes')].targets, c))
          /\ HandlerStep("trigger") =>
               \A c \in clientConnections \ sendFails :
                 Gains(c, Message("message", <<tasks'[started'[Len(started')]].input>>), 1)]_vars
  /\ [](\A t \in TaskIds :
          (tasks[t].type \in {"trigger", "chat.private"} /\ HandlerRan(t) /\ Done(t))
            => tasks[t].out = "ok")

\* C15 witness: a handler broadcast while c1's sink was throwing; c2 got the
\* frame, c1 got nothing and the handler returned.
C15_Witness ==
  \E t \in TaskIds :
    /\ tasks[t].type = "trigger" /\ tasks[t].conn = "c1" /\ tasks[t].out = "ok"
    /\ "c1" \in sendFails /\ "c1" \in clientConnections /\ sink["c1"] = <<>>
    /\ sink["c2"] = <<Message("message", <<"r1">>)>>

\* The schema of the frame's route rejects its payload (issues or a throw).
Rejected(task) ==
  LET v == Validate(task.type, task.payload) IN v.issues \/ v.threw

\* C16: a frame whose payload the route's schema rejects (issues, or the
\* validator throws) is dropped: no middleware and no handler runs, no frame
\* is written to any sink (no __rpc_res although the frame carries an rpcId),
\* the connection stays registered and open, and a later valid frame of the
\* same connection is still dispatched to its handler.
C16_InvalidPayloadDropped ==
  /\ [](\A t \in TaskIds :
          /\ Rejected(tasks[t]) =>
               tasks[t].mwCalls = 0 /\ tasks[t].hcalls = 0 /\ tasks[t].replies = 0
          /\ (/\ ~Rejected(tasks[t]) /\ Done(t) /\ tasks[t].published
              /\ tasks[t].type = "greet"
              /\ \E u \in 1..(t - 1) : tasks[u].conn = tasks[t].conn /\ Rejected(tasks[u]))
               => tasks[t].hcalls = 1 /\ tasks[t].out = "ok")
  /\ [][\A t \in Advanced :
          Rejected(tasks'[t]) =>
            /\ sink' = sink /\ sock' = sock /\ started' = started
            /\ clientConnections' = clientConnections
            /\ clientContexts' = clientContexts]_vars

\* C16 witness: on one connection a frame with issues and a frame whose
\* validation threw were dropped, and the valid RPC sent after them was
\* answered; that answer is the only frame the connection got.
C16_Witness ==
  \E c \in Clients :
    /\ Len(tasks) = 3 /\ \A t \in 1..3 : tasks[t].conn = c /\ tasks[t].published
    /\ tasks[1].out = "invalid payload" /\ tasks[1].rpcId = "x"
    /\ tasks[2].out = "payload parsing error"
    /\ tasks[3].out = "ok"
    /\ sink[c] = <<[type |-> "__rpc_res", payload |-> <<"Hello", "r1">>, rpcId |-> "x"]>>
    /\ sock[c] = "open"

\* The adminOnly middleware throws for every connection whose role is not
\* admin; it is the only middleware of test.adminOnly and the first of the two
\* middlewares of test.gated.
MiddlewareThrows(task) ==
  task.type \in {"test.adminOnly", "test.gated"} /\ Headers(task.conn) # "admin"

\* C17: when a middleware of the route throws, the request is aborted
\* silently: no later middleware and no handler is invoked and no frame is
\* written to any sink, not even for an RPC; a request whose middlewares all
\* return reaches the handler after all of them ran.
C17_MiddlewareAbort ==
  /\ [](\A t \in TaskIds :
          /\ MiddlewareThrows(tasks[t]) =>
               /\ tasks[t].mwCalls <= 1
               /\ tasks[t].ctx.step2 = <<>>
               /\ tasks[t].hcalls = 0
               /\ tasks[t].replies = 0
          /\ (/\ ~MiddlewareThrows(tasks[t]) /\ ~Rejected(tasks[t])
              /\ tasks[t].type \in {"test.compute", "test.adminOnly", "test.gated"}
              /\ Done(t) /\ tasks[t].published)
               => /\ tasks[t].hcalls = 1
                  /\ tasks[t].mwCalls = NumMiddlewares(tasks[t].type))
  /\ [][\A t \in Advanced : MiddlewareThrows(tasks'[t]) => sink' = sink]_vars

\* C17 witness: the test.gated RPC of the user connection ended at the first
\* of its two middlewares, the second was never called, and the sink stayed
\* empty, while the same route called by the admin connection went through
\* both middlewares and reached its handler.
C17_Witness ==
  \E t, u \in TaskIds :
    /\ tasks[t].conn = "c2" /\ tasks[t].type = "test.gated" /\ tasks[t].rpcId = "x"
    /\ NumMiddlewares(tasks[t].type) = 2
    /\ Done(t) /\ tasks[t].mwCalls = 1 /\ tasks[t].hcalls = 0 /\ sink["c2"] = <<>>
    /\ tasks[u].conn = "c1" /\ tasks[u].type = "test.gated"
    /\ Done(u) /\ tasks[u].mwCalls = 2 /\ tasks[u].hcalls = 1

\* The value the route's schema makes of the frame's payload.
Validated(task) == Validate(task.type, task.payload).value

\* C18: the middlewares of a route run in the order of their use() calls,
\* after the validation and before the handler; each gets the validated
\* payload and a context holding what the earlier ones returned, and the
\* handler gets the context holding what all of them returned.
C18_MiddlewareOrder ==
  \A t \in TaskIds :
    LET task == tasks[t]
        v == Validated(task)
    IN /\ task.mwCalls > 0 => task.input = v /\ ~Rejected(task)
       /\ (task.hcalls > 0 /\ task.type \in {"test.compute", "test.adminOnly"})
            => task.mwCalls = NumMiddlewares(task.type)
       /\ task.type = "test.compute" =>
            /\ (task.pc = "mw" /\ task.mwi = 1) =>
                 task.mwCalls = 1 /\ task.add = [step1 |-> <<"mw1", v>>]
            /\ (task.pc = "mw" /\ task.mwi = 2) =>
                 /\ task.mwCalls = 2 /\ task.ctx.step1 = <<"mw1", v>>
                 /\ task.add = [step2 |-> <<"mw2", "mw1", v>>]
            /\ task.hcalls > 0 =>
                 /\ task.ctx.step1 = <<"mw1", v>>
                 /\ task.ctx.step2 = <<"mw2", "mw1", v>>
       /\ (task.type = "test.adminOnly" /\ task.hcalls > 0) => task.ctx.isAdmin

\* C18 witness: test.compute answered with the values of both middlewares,
\* the second built on the first, the first on the schema's default.
C18_Witness ==
  \E t \in TaskIds :
    /\ tasks[t].type = "test.compute" /\ tasks[t].payload = Undefined /\ Done(t)
    /\ \E k \in DOMAIN sink[tasks[t].conn] :
         sink[tasks[t].conn][k] =
           Message("test.onResult", <<<<"mw1", "ping">>, <<"mw2", "mw1", "ping">>>>)

\* The handler of frame t was invoked and threw (its promise rejected).
HandlerThrew(task) == task.hcalls = 1 /\ task.out = "handler threw"

\* C19: when a handler throws or its promise rejects, no frame is written for
\* that request (no __rpc_res, no error frame, although it carries an rpcId),
\* the error stays inside the message handler, the connection stays open and
\* registered, and the frames received afterwards, on this and on the other
\* connection, are dispatched as usual.
C19_HandlerThrowContained ==
  /\ [](\A t \in TaskIds :
          /\ HandlerThrew(tasks[t]) => tasks[t].replies = 0
          /\ (/\ tasks[t].type = "greet" /\ ~Rejected(tasks[t])
              /\ Done(t) /\ tasks[t].published
              /\ \E u \in 1..(t - 1) : HandlerThrew(tasks[u]))
               => /\ tasks[t].hcalls = 1 /\ tasks[t].out = "ok"
                  /\ \E k \in DOMAIN sink[tasks[t].conn] :
                       sink[tasks[t].conn][k] = ReplyFrame(t))
  /\ [][\A t \in Advanced :
          (HandlerThrew(tasks'[t]) /\ ~HandlerThrew(tasks[t]))
            => /\ sink' = sink /\ sock' = sock
               /\ clientConnections' = clientConnections
               /\ clientContexts' = clientContexts
               /\ clientRooms' = clientRooms]_vars

\* C19 witness: the handler of an RPC threw; the connection got no frame for
\* it, stayed registered, and its next RPC and one of the other connection
\* were answered.
C19_Witness ==
  /\ Len(tasks) = 3
  /\ tasks[1].conn = "c1" /\ tasks[1].rpcId = "y" /\ HandlerThrew(tasks[1])
  /\ tasks[2].conn = "c1" /\ tasks[2].type = "greet" /\ tasks[2].out = "ok"
  /\ tasks[3].conn = "c2" /\ tasks[3].type = "greet" /\ tasks[3].out = "ok"
  /\ "c1" \in clientConnections /\ sock["c1"] = "open"
  /\ sink["c1"] = <<[type |-> "__rpc_res", payload |-> <<"Hello", "r1">>, rpcId |-> "x"]>>
  /\ Len(sink["c2"]) = 1

\* The __rpc_res frames among the frames handed to a sink.
RpcFrames(frames) == SelectSeq(frames, IsRpcRes)

\* C20 (as stated): once handle_close has run to its end for a connection
\* (on_disconnect returned, tables deleted), a handler of one of its RPC
\* frames that is still running completes, and no __rpc_res frame is handed
\* to the closed connection's sink.
C20_Claim ==
  [][\A c \in Clients :
       DisconnectReturned(c) => RpcFrames(sink'[c]) = RpcFrames(sink[c])]_vars

\* C28: on an adapter without a publish function, toRoom(room_ids) delivers
\* nothing: no sink gets a frame from server.send...toRoom() nor from the
\* toRoom calls of the room handlers, although the registry knows the rooms'
\* members, and the handlers that called it return normally.
C28_NoPublishNoDelivery ==
  /\ [][(~publishFn /\ (PushStep("toRoom") \/ HandlerStep("rooms.join")
                        \/ HandlerStep("rooms.leave") \/ HandlerStep("rooms.message")))
          => sink' = sink]_vars
  /\ [](~publishFn =>
          \A t \in TaskIds : (HandlerRan(t) /\ Done(t)) => tasks[t].out = "ok")

\* C28 witness: without publish, a pushed toRoom and a rooms.message of a
\* member left the sink of the member of r1 empty.
C28_Witness ==
  \E c \in Clients, t \in TaskIds :
    /\ ~publishFn /\ Len(pushes) = 1 /\ pushes[1].targets = <<"r1">>
    /\ sock[c] = "open" /\ c \in clientRooms /\ "r1" \in roomSets[c]
    /\ tasks[t].conn = c /\ tasks[t].type = "rooms.message" /\ tasks[t].has
    /\ tasks[t].out = "ok" /\ sink[c] = <<>>
    /\ Len(started) = 2

\* The frame is not dispatchable: it failed the parse or the shape check, or
\* its type has no incoming handler in the dispatch table.
Undispatchable(task) ==
  task.out \in {"error", "invalid format"} \/ task.type \notin InRoutes

\* C27: text that is not JSON, not an object or has no string type, and a
\* frame whose type has no incoming handler, are dropped without effect: no
\* middleware or handler runs, no frame is written, tables, contexts and
\* subscription sets stay as they are and the connection stays open, so that
\* its next valid frame is dispatched.
C27_MalformedDropped ==
  /\ [](\A t \in TaskIds :
          /\ (tasks[t].type \notin InRoutes) =>
               tasks[t].mwCalls = 0 /\ tasks[t].hcalls = 0 /\ tasks[t].replies = 0
          /\ (/\ tasks[t].type = "greet" /\ Done(t) /\ tasks[t].published
              /\ \E u \in 1..(t - 1) :
                   tasks[u].conn = tasks[t].conn /\ Undispatchable(tasks[u]))
               => tasks[t].hcalls = 1 /\ tasks[t].out = "ok")
  /\ [][\A t \in Advanced :
          (tasks'[t].type \notin InRoutes) =>
            /\ sink' = sink /\ sock' = sock /\ started' = started
            /\ clientConnections' = clientConnections
            /\ clientContexts' = clientContexts
            /\ clientRooms' = clientRooms
            /\ roomSets' = roomSets /\ subscribed' = subscribed]_vars

\* C27 witness: text that is no frame and a frame of an unknown type carrying
\* an rpcId were dropped on a connection with a published context, and the
\* valid RPC after them was the only one answered.
C27_Witness ==
  \E c \in Clients :
    /\ Len(tasks) = 3 /\ \A t \in 1..3 : tasks[t].conn = c /\ tasks[t].published
    /\ tasks[1].out = "invalid format"
    /\ tasks[2].type = "nope" /\ tasks[2].out = "no handler"
    /\ tasks[3].type = "greet" /\ tasks[3].out = "ok"
    /\ Len(sink[c]) = 1 /\ sock[c] = "open"

\* C30 (as stated): once handle_close has finished for a client and its
\* on_connect has settled, neither the live connection table, the context
\* table, the room registry nor the pending-context map has an entry for it.
C30_Claim ==
  \A c \in Clients :
    (closeDone[c] /\ sock[c] = "closed" /\ connectOutcome[c] \in {"returned", "threw"}
       /\ microQ = <<>>)
      => /\ c \notin clientConnections
         /\ clientContexts[c] = NoCtx
         /\ c \notin clientRooms
         /\ c \notin pendingContexts

\* C21 (as stated): handle_close unsubscribes the connection's sink from every
\* room topic of its subscription set.
C21_Claim ==
  [][\A c \in Clients :
       (closeDone'[c] /\ ~closeDone[c]) => roomSets[c] \subseteq CloseUnsubscribes(c)]_vars

\* The merged handshake fields of request i fail the headers schema.
HandshakeInvalid(i) ==
  LET req == upgrades[i].req
      role == IF req.qry["role"] # Undefined THEN req.qry["role"] ELSE req.hdr["role"]
  IN role \notin {Undefined, "admin", "user", "boom"}

\* C22: a request whose merged handshake fields fail the headers schema is
\* answered with status 400 and the JSON body {error: "Invalid headers",
\* details: issues}; no client id is allocated, nothing is upgraded, on_open
\* and on_connect never run for it and the connection table stays as it was.
C22_HandshakeRejected ==
  /\ [](\A i \in DOMAIN upgrades :
          HandshakeInvalid(i) =>
            /\ upgrades[i].response.status = 400
            /\ upgrades[i].response.body.json
            /\ upgrades[i].response.contentType = "application/json"
            /\ upgrades[i].response.body.error = "Invalid headers"
            /\ upgrades[i].response.body.details # <<>>
            /\ upgrades[i].result.clientId = NoClientId
            /\ upgrades[i].connect = <<>>
            /\ i \notin wsOpen
            /\ \A p \in registered : p[2] # i)
  /\ [][(Len(upgrades') > Len(upgrades) /\ HandshakeInvalid(Len(upgrades))')
          => registered' = registered /\ wsOpen' = wsOpen]_vars

\* C22 witness: a request with an invalid role was rejected while another
\* connection was live.
C22_Witness ==
  /\ Len(upgrades) = 2 /\ HandshakeInvalid(2) /\ upgrades[2].response.status = 400
  /\ wsOpen = {1} /\ Cardinality(registered) = 1

\* C23: the bag that is validated is the union of the protocol headers and
\* the query parameters, the query parameter winning where both have the key,
\* and the value validated from it is the one on_connect receives.
C23_QueryWins ==
  \A i \in DOMAIN upgrades :
    LET req == upgrades[i].req
        merged(k) == IF req.qry[k] # Undefined THEN req.qry[k] ELSE req.hdr[k]
    IN /\ \A k \in HandshakeKeys : upgrades[i].bag[k] = merged(k)
       /\ upgrades[i].connect # <<>> =>
            /\ upgrades[i].connect[1].headers.role =
                 (IF merged("role") = Undefined THEN "user" ELSE merged("role"))
            /\ upgrades[i].connect[1].clientId = upgrades[i].result.clientId

\* C23 witness: a request with role user in its headers and role admin in its
\* query, and headers-only and query-only keys, reached on_connect.
C23_Witness ==
  \E i \in DOMAIN upgrades :
    /\ upgrades[i].req.hdr["role"] = "user" /\ upgrades[i].req.qry["role"] = "admin"
    /\ upgrades[i].req.hdr["x-trace"] = "t1" /\ upgrades[i].req.qry["x-trace"] = Undefined
    /\ upgrades[i].connect # <<>> /\ upgrades[i].connect[1].headers.role = "admin"

\* C24 (as stated): no two live connections share a client id, and
\* registering a connection never overwrites another live connection's entry.
C24_Claim ==
  /\ \A i, j \in wsOpen :
       i # j => upgrades[i].result.clientId # upgrades[j].result.clientId
  /\ \A i \in wsOpen : <<upgrades[i].result.clientId, i>> \in registered

Indices(seq) == DOMAIN seq

\* The dotted path of a definition, atom by atom.
RECURSIVE Dotted(_)
Dotted(path) == IF path = <<>> THEN <<>> ELSE Head(path) \o Dotted(Tail(path))

\* C25 (as stated): building a server from a router with two procedures of
\* the same dotted path, a handler on an out procedure or an incoming
\* procedure without handler fails at startup and yields no dispatch table.
C25_Claim ==
  \A n \in DOMAIN built :
    LET router == built[n].router
    IN (\/ \E i, j \in Indices(router) :
              i # j /\ Dotted(router[i].path) = Dotted(router[j].path)
        \/ \E i \in Indices(router) :
              router[i].direction = "out" /\ router[i].handler
        \/ \E i \in Indices(router) :
              router[i].direction = "in" /\ ~router[i].handler)
         => built[n].threw /\ built[n].metaMap = {}

\* C26 (as stated): a router with a route path segment __rpc_res is rejected,
\* so no route of a dispatch table is named __rpc_res.
C26_Claim ==
  \A n \in DOMAIN built :
    /\ (\E i \in Indices(built[n].router), k \in 1..2 :
          k <= Len(built[n].router[i].path)
            /\ \E a \in 1..2 : a <= Len(built[n].router[i].path[k])
                                 /\ built[n].router[i].path[k][a] = "__rpc_res")
         => built[n].threw
    /\ <<"__rpc_res">> \notin built[n].metaMap

\* The accessor expression has a property named then.
HasThen(props) == \E k \in DOMAIN props : props[k] = <<"then">>

\* C29 (as stated): for any route path, every evaluation of client.on.<p>
\* and client.send.<p> returns the identical proxy object.
C29_Original ==
  \A i, j \in DOMAIN evals :
    /\ evals[i].value.kind = "proxy"
    /\ (evals[i].root = evals[j].root /\ evals[i].props = evals[j].props)
         => evals[i].value = evals[j].value

\* C29 (amended): for any route path none of whose segments is named then,
\* every evaluation of client.on.<p> and client.send.<p> returns the
\* identical proxy object; a segment named then evaluates to undefined and
\* never to a new function.
C29_ProxyIdentity ==
  \A i, j \in DOMAIN evals :
    /\ evals[i].value.kind = "proxy" <=> ~HasThen(evals[i].props)
    /\ (evals[i].root = evals[j].root /\ evals[i].props = evals[j].props)
         => evals[i].value = evals[j].value

\* C29 witness: client.on.a.b was evaluated twice, with another accessor
\* evaluated in between, and gave the same proxy.
C29_Witness ==
  /\ Len(evals) = 3
  /\ evals[1].root = "on" /\ evals[1].props = << <<"a">>, <<"b">> >>
  /\ evals[3].root = "on" /\ evals[3].props = << <<"a">>, <<"b">> >>
  /\ evals[2].root = "send" /\ evals[2].props = << <<"a", "b">> >>
  /\ evals[1].value.kind = "proxy" /\ evals[3].value = evals[1].value
  /\ evals[2].value # evals[1].value

\* handle_close was entered for c, invoked on_disconnect and is no longer
\* running: its continuation is neither queued nor waiting for I/O.
CloseEnded(c) ==
  /\ sock[c] = "closed" /\ Len(disconnectLog[c]) > 0
  /\ \A x \in io : ~(x.k = "close" /\ x.c = c)
  /\ \A i \in DOMAIN microQ : ~(microQ[i].k = "close" /\ microQ[i].c = c)

\* C31 (as stated): handle_close removes the connection from the live
\* connection table, the context table and the room registry on every path,
\* also when on_disconnect throws or rejects, and no later broadcast() or
\* to() hands a frame to the closed connection.
C31_Claim ==
  /\ [](\A c \in Clients :
          CloseEnded(c) => /\ c \notin clientConnections
                           /\ clientContexts[c] = NoCtx
                           /\ c \notin clientRooms)
  /\ [][\A c \in Clients : CloseEnded(c) => sink'[c] = sink[c]]_vars

\* C32 (as stated): a connection whose on_connect threw or rejected is
\* treated as not opened: it has no entry in the context table, the live
\* connection table, the room registry or the pending-context map, no
\* handler runs for its frames and no broadcast() or to() hands it a frame.
C32_Claim ==
  \A c \in Clients :
    (connectOutcome[c] = "threw" /\ microQ = <<>>) =>
      /\ clientContexts[c] = NoCtx
      /\ c \notin clientConnections
      /\ c \notin clientRooms
      /\ c \notin pendingContexts
      /\ \A t \in TaskIds : tasks[t].conn = c => tasks[t].hcalls = 0
      /\ sink[c] = <<>>

\* C33 (as stated): the rooms set handed to on_disconnect is a snapshot taken
\* at disconnect: what on_disconnect sees when it comes to its end is the set
\* it was handed, whatever a still-running handler joined or left meanwhile.
C33_Claim ==
  \A c \in Clients : \A i \in DOMAIN disconnectLog[c] :
    disconnectLog[c][i].late # <<>>
      => disconnectLog[c][i].late[1] = disconnectLog[c][i].ctx.rooms

\* The step resumes, after its timer, the handler of frame t.
ResumesHandler(t) == tasks[t].pc = "handlerIo" /\ tasks'[t].pc # "handlerIo"

\* C34 (as stated): once a connection is closed, the ctx.send and ctx.rooms
\* operations of its still-running handlers are no-ops: they hand no frame to
\* any sink, do not put the connection back into the connection table or the
\* room registry, change no registered subscription set and subscribe its
\* sink to no topic.
C34_Claim ==
  [][\A t \in TaskIds :
       (ResumesHandler(t) /\ sock[tasks[t].conn] = "closed")
         => /\ sink' = sink
            /\ clientConnections' = clientConnections
            /\ clientRooms' = clientRooms
            /\ (tasks[t].conn \in clientRooms
                  => roomSets'[tasks[t].conn] = roomSets[tasks[t].conn])
            /\ subscribed' = subscribed]_vars

\* The outgoing routes as dotted names and as property paths.
RoutePairs ==
  {<<"message", <<"message">> >>, <<"test.onResult", <<"test", "onResult">> >>,
   <<"rooms.onJoin", <<"rooms", "onJoin">> >>, <<"rooms.onMessage", <<"rooms", "onMessage">> >>,
   <<"chat.onPrivate", <<"chat", "onPrivate">> >>}

\* C35: in every state, for every room, dotted route and payload,
\* ctx.rooms.broadcast(room, route, payload) and
\* send.<route>(payload).toRoom([room]) have the same effect: the same frame
\* {type: route, payload} delivered to the same sinks, and nothing else.
C35_BroadcastIsToRoom ==
  \A r \in Rooms \cup {"ghost"}, rp \in RoutePairs, payload \in {<<"r1">>, <<Undefined>>} :
    LET viaRooms == RoomsBroadcast(Bundle, r, rp[1], payload)
        viaSend == SendProxyToRoom(Bundle, rp[2], payload, <<r>>)
    IN /\ viaRooms = viaSend
       /\ \A c \in Clients :
            viaRooms.sink[c] \in {sink[c], Append(sink[c], Message(rp[1], payload))}

\* C35 witness: a member of r1 sent the room one message through the send
\* proxy and one through rooms.broadcast, and the other member received the
\* same frame twice.
C35_Witness ==
  \E c, d \in Clients, t, u \in TaskIds :
    /\ c # d /\ publishFn
    /\ tasks[t].conn = c /\ tasks[t].type = "rooms.message" /\ tasks[t].out = "ok"
    /\ tasks[u].conn = c /\ tasks[u].type = "rooms.shout" /\ tasks[u].out = "ok"
    /\ sink[d] = <<Message("rooms.onJoin", <<"r1", OnConnectValue(d)>>),
                   Message("rooms.onMessage", <<"r1", OnConnectValue(c)>>),
                   Message("rooms.onMessage", <<"r1", OnConnectValue(c)>>)>>

\* C38: for every live connection and every room, whatever joins and leaves
\* were made, the transport sink is subscribed to the room's topic exactly
\* when the room is in the connection's subscription set.
C38_TopicsMatchRooms ==
  \A c \in Clients :
    (sock[c] = "open" /\ c \in clientConnections /\ c \in clientRooms)
      => \A r \in Rooms : r \in subscribed[c] <=> r \in RoomsCurrent(Bundle, c)

\* C38 witness: a connection joined r1, joined r2 and left r1, and both its
\* subscription set and its topics are {r2}.
C38_Witness ==
  \E c \in Clients :
    /\ Len(tasks) = 3 /\ \A t \in 1..3 : tasks[t].conn = c /\ tasks[t].out = "ok"
    /\ tasks[1].type = "rooms.join" /\ tasks[1].input = "r1"
    /\ tasks[2].type = "rooms.join" /\ tasks[2].input = "r2"
    /\ tasks[3].type = "rooms.leave" /\ tasks[3].input = "r1"
    /\ sock[c] = "open" /\ roomSets[c] = {"r2"} /\ subscribed[c] = {"r2"}

\* C36: what a middleware returns is merged into the request's own copy of
\* the context only: the stored context of the connection stays what
\* on_connect made it, and a request's context holds a middleware value only
\* if a middleware of its own route added it.
C36_PrivateCopy ==
  /\ \A c \in Clients :
       clientContexts[c] \in {NoCtx, MakeCtx(c, OnConnectValue(c))}
  /\ \A t \in TaskIds :
       /\ tasks[t].ctx.isAdmin => tasks[t].type = "test.adminOnly" /\ tasks[t].mwi >= 1
       /\ tasks[t].ctx.step1 # <<>> => tasks[t].type = "test.compute" /\ tasks[t].mwi >= 1
       /\ tasks[t].ctx.step2 # <<>> => tasks[t].type = "test.compute" /\ tasks[t].mwi >= 2

\* C36 witness: on one connection a request whose middleware set isAdmin was
\* followed by a request that ran its handler without seeing it, and one with
\* step1 and step2 by a request seeing neither.
C36_Witness ==
  \E c \in Clients :
    /\ Len(tasks) = 3 /\ \A t \in 1..3 : tasks[t].conn = c /\ tasks[t].out = "ok"
    /\ tasks[1].type = "test.adminOnly" /\ tasks[1].ctx.isAdmin
    /\ tasks[2].type = "test.compute" /\ tasks[2].ctx.step2 # <<>> /\ ~tasks[2].ctx.isAdmin
    /\ tasks[3].type = "greet" /\ tasks[3].hcalls = 1
    /\ tasks[3].ctx = MakeCtx(c, OnConnectValue(c))

\* C37: whenever a middleware or the handler of a request calls getContext,
\* also after the handler was suspended and requests of other connections
\* ran meanwhile, it gets that request's own context: the connection's
\* client id and on_connect value, the values of the earlier middlewares, and
\* in the handler the very context the handler was given.  Outside any
\* request (in on_disconnect) it raises the context error.
C37_AmbientContext ==
  /\ \A t \in TaskIds : \A k \in DOMAIN tasks[t].ambient :
       LET read == tasks[t].ambient[k]
       IN /\ read.seen.clientId = tasks[t].conn
          /\ read.seen.role = OnConnectValue(tasks[t].conn)
          /\ read.point \in {"handler", "resumed"} => read.seen = tasks[t].ctx
          /\ (read.point = "middleware" /\ k = 2) => read.seen.step1 # <<>>
  /\ \A t \in TaskIds :
       /\ tasks[t].mwCalls + tasks[t].hcalls <= Len(tasks[t].ambient)
       /\ (tasks[t].pc = "done" /\ tasks[t].out = "ok" /\ tasks[t].type \in AsyncRoutes)
            => tasks[t].ambient[Len(tasks[t].ambient)].point = "resumed"
  /\ \A c \in Clients : \A i \in DOMAIN disconnectLog[c] :
       disconnectLog[c][i].store = ContextError

\* C37 witness: while the handler of a request of one connection awaited its
\* timer, a request of the other connection went through two middlewares and
\* its handler; then the first handler went on and read its own context; and
\* an on_disconnect got the context error.
C37_Witness ==
  \E c, d \in Clients :
    /\ c # d /\ Len(tasks) = 2 /\ started = <<1, 2>>
    /\ tasks[1].conn = c /\ tasks[1].type = "delayedEcho" /\ tasks[1].out = "ok"
    /\ tasks[2].conn = d /\ tasks[2].type = "test.compute" /\ tasks[2].out = "ok"
    /\ Len(tasks[2].ambient) = 3
    /\ Len(tasks[1].ambient) = 2 /\ tasks[1].ambient[2].point = "resumed"
    /\ tasks[1].ambient[2].seen.clientId = c
    /\ Len(disconnectLog[d]) = 1

\* ---------------------------------------------------------------------------
\* The client's sockets: attachSocket, close(), reconnect() and the transport's
\* open and close events.
\* ---------------------------------------------------------------------------

\* Most sockets one client creates in a run.
MaxSockets == 5

\* readyState values a WebSocket that has not finished closing can have.
NonClosed == {"CONNECTING", "OPEN", "CLOSING"}

\* new WebSocketImpl(url): a socket that is connecting, with no reconnect listener.
NewSocket == [readyState |-> "CONNECTING", reconnects |-> 0, dispatch |-> FALSE]

\* Sockets whose close event is being dispatched: the listener attachSocket
\* installed has run, its onClose callbacks are running, the
\* reconnectAfterClose listeners are still to come.
Dispatching == {i \in 1..Len(sockets) : sockets[i].dispatch}

\* attachSocket(): create a socket and make it the current one.  Result is the
\* pair <<sockets, socket>>.
AttachSocket(ss) == <<Append(ss, NewSocket), Len(ss) + 1>>

\* attachSocket() called n times in a row.
RECURSIVE AttachTimes(_, _, _)
AttachTimes(ss, cur, n) ==
  IF n = 0 THEN <<ss, cur>>
  ELSE LET a == AttachSocket(ss) IN AttachTimes(a[1], a[2], n - 1)

\* ws.close(): a connecting or open socket starts closing; otherwise a no-op.
WsCloseCall(ws) ==
  IF ws.readyState \in {"CONNECTING", "OPEN"}
  THEN [ws EXCEPT !.readyState = "CLOSING"] ELSE ws

\* reconnectAfterClose listeners registered and not yet run, over all sockets.
RECURSIVE PendingReconnects(_)
PendingReconnects(ss) ==
  IF ss = <<>> THEN 0 ELSE Head(ss).reconnects + PendingReconnects(Tail(ss))

\* The transport opens socket i.  The open listener only notifies callbacks.
SocketOpened(i) ==
  /\ Dispatching = {}
  /\ sockets[i].readyState = "CONNECTING"
  /\ sockets' = [sockets EXCEPT ![i].readyState = "OPEN"]
  /\ UNCHANGED <<runtimeVars, publishFn, upgrades, wsOpen, registered, built,
                 proxyCache, evals, socket, hook>>

\* The close event of socket i reaches the listener attachSocket installed: it
\* clears `socket` if it is still i and then calls options.onClose and the
\* closeListeners, which are free to call reconnect() and close().
SocketClosed(i) ==
  /\ Dispatching = {}
  /\ sockets[i].readyState \in NonClosed
  /\ sockets' = [sockets EXCEPT ![i].readyState = "CLOSED", ![i].dispatch = TRUE]
  /\ socket' = IF socket = i THEN 0 ELSE socket
  /\ UNCHANGED <<runtimeVars, publishFn, upgrades, wsOpen, registered, built,
                 proxyCache, evals, hook>>

\* The rest of the close event of socket i: every reconnectAfterClose listener
\* registered on i runs in turn, each clearing `socket` if it is still i and
\* calling attachSocket().
ReconnectAfterClose(i) ==
  /\ sockets[i].dispatch
  /\ LET n   == sockets[i].reconnects
         ss0 == [sockets EXCEPT ![i].reconnects = 0, ![i].dispatch = FALSE]
         cur == IF socket = i /\ n > 0 THEN 0 ELSE socket
         a   == AttachTimes(ss0, cur, n)
     IN /\ sockets' = a[1]
        /\ socket' = a[2]
  /\ UNCHANGED <<runtimeVars, publishFn, upgrades, wsOpen, registered, built,
                 proxyCache, evals, hook>>

\* client.close(), from outside or from a callback of a close event.
ClientClose ==
  /\ IF socket = 0 THEN UNCHANGED sockets
     ELSE sockets' = [sockets EXCEPT ![socket] = WsCloseCall(@)]
  /\ UNCHANGED <<runtimeVars, publishFn, upgrades, wsOpen, registered, built,
                 proxyCache, evals, socket, hook>>

\* client.reconnect(), from outside or from a callback of a close event;
\* closeThrows: currentSocket.close() raised.
Reconnect(closeThrows) ==
  /\ Len(sockets) + PendingReconnects(sockets) < MaxSockets
  /\ IF socket = 0 \/ sockets[socket].readyState = "CLOSED"
     THEN LET a == AttachSocket(sockets) IN sockets' = a[1] /\ socket' = a[2]
     ELSE IF closeThrows
     THEN LET a == AttachSocket(sockets) IN sockets' = a[1] /\ socket' = a[2]
     ELSE /\ sockets' = [sockets EXCEPT
                 ![socket] = WsCloseCall([@ EXCEPT !.reconnects = @ + 1])]
          /\ UNCHANGED socket
  /\ UNCHANGED <<runtimeVars, publishFn, upgrades, wsOpen, registered, built,
                 proxyCache, evals, hook>>

\* WebSocket.close() without arguments does not raise, so the runs explored
\* here take reconnect()'s catch branch out of the picture.
CloseRaises == {FALSE}

NextSockets ==
  \/ \E i \in 1..Len(sockets) : SocketOpened(i)
  \/ \E i \in 1..Len(sockets) : SocketClosed(i)
  \/ \E i \in 1..Len(sockets) : ReconnectAfterClose(i)
  \/ ClientClose
  \/ \E closeThrows \in CloseRaises : Reconnect(closeThrows)

SpecSockets == Init /\ [][NextSockets]_vars

\* C39: at every moment at most one socket the client created is not closed,
\* and that socket is the client's current one (the one send and message
\* dispatch use).
C39_Claim ==
  \A i \in 1..Len(sockets) : sockets[i].readyState \in NonClosed => socket = i

\* ---------------------------------------------------------------------------
\* The standalone useCall hook.
\* ---------------------------------------------------------------------------

\* Largest value requestIdRef reaches in a run.
MaxRequestId == 4

\* { data: null, loading: false, error: null }
IdleState == [data |-> 0, loading |-> FALSE, error |-> 0]

\* The component has been unmounted: it rendered, its mount effect ran and the
\* cleanup of that effect ran too.
Unmounted(h) == h.rendered /\ ~h.isMounted /\ h.effects = "none"

\* setState(next): React discards an update to an unmounted component.
SetState(h, next) ==
  IF Unmounted(h) THEN h ELSE [h EXCEPT !.state = next]

\* The guard after the await: the outcome is ignored when true.
Superseded_mountedOnly(h, requestId) == ~h.isMounted

Superseded(h, requestId) ==
  ~h.isMounted \/ requestId # h.requestId

\* fetchData up to its await: take the next request id, flag loading, start
\* the call.
FetchData(h) ==
  LET requestId == h.requestId + 1
  IN SetState([h EXCEPT !.requestId = requestId, !.calls = @ \cup {requestId}],
              [h.state EXCEPT !.loading = TRUE, !.error = 0])

\* The effect on [enabled, fetchData, ...deps].
CallEffect(h) ==
  IF ~h.enabled
  THEN SetState([h EXCEPT !.requestId = @ + 1], IdleState)
  ELSE FetchData(h)

\* fetchData after its await: the call settled with a result (ok) or an error.
AfterAwait(h, requestId, ok) ==
  LET h1 == [h EXCEPT !.calls = @ \ {requestId}]
  IN IF Superseded(h, requestId)
     THEN [h1 EXCEPT !.dropped = @ \cup {requestId}]
     ELSE SetState([h1 EXCEPT !.committed = @ \cup {requestId}],
                   IF ok
                   THEN [data |-> requestId, loading |-> FALSE, error |-> 0]
                   ELSE [data |-> 0, loading |-> FALSE, error |-> requestId])

hookRest == <<runtimeVars, publishFn, upgrades, wsOpen, registered, built,
              proxyCache, evals, sockets, socket>>

\* First render: useState's initial value; the render returns refetch.  The two
\* effects are left for React to run after the commit.
Mount(enabled) ==
  /\ ~hook.rendered
  /\ hook' = [hook EXCEPT !.rendered = TRUE, !.enabled = enabled,
                          !.effects = "mount",
                          !.state = [IdleState EXCEPT !.loading = enabled]]
  /\ UNCHANGED hookRest

\* React runs the passive effects of the last commit: after the first render
\* the isMountedRef effect and then the effect on [enabled, fetchData, ...deps],
\* after a later render the latter alone.
RunEffects ==
  /\ hook.effects # "none"
  /\ hook' = CallEffect([hook EXCEPT !.effects = "none",
                                     !.isMounted = (@ \/ hook.effects = "mount")])
  /\ UNCHANGED hookRest

\* refetch(), by whoever holds the function a render returned; it can run
\* between a render and that render's effects (from a layout effect, say).
Refetch ==
  /\ hook.rendered
  /\ hook.requestId < MaxRequestId - (IF hook.effects = "none" THEN 0 ELSE 1)
  /\ hook' = FetchData(hook)
  /\ UNCHANGED hookRest

\* A render with changed deps: the effect is due again.  React runs the
\* effects of a commit before it renders the component again.
DepsChange ==
  /\ hook.isMounted
  /\ hook.effects = "none"
  /\ hook.requestId < MaxRequestId
  /\ hook' = [hook EXCEPT !.effects = "update"]
  /\ UNCHANGED hookRest

\* A render with options.enabled changed: the effect is due again.
SetEnabled(enabled) ==
  /\ hook.isMounted
  /\ hook.effects = "none"
  /\ enabled # hook.enabled
  /\ hook.requestId < MaxRequestId
  /\ hook' = [hook EXCEPT !.enabled = enabled, !.effects = "update"]
  /\ UNCHANGED hookRest

\* Unmount: the cleanup of the isMountedRef effect.
Unmount ==
  /\ hook.isMounted
  /\ hook.effects = "none"
  /\ hook' = [hook EXCEPT !.isMounted = FALSE]
  /\ UNCHANGED hookRest

\* A call in flight settles.
Settle(requestId, ok) ==
  /\ requestId \in hook.calls
  /\ hook' = AfterAwait(hook, requestId, ok)
  /\ UNCHANGED hookRest

NextHook ==
  \/ \E enabled \in BOOLEAN : Mount(enabled)
  \/ RunEffects
  \/ Refetch
  \/ DepsChange
  \/ \E enabled \in BOOLEAN : SetEnabled(enabled)
  \/ Unmount
  \/ \E requestId \in 1..MaxRequestId, ok \in BOOLEAN : Settle(requestId, ok)

SpecHook == Init /\ [][NextHook]_vars

\* The states a call's outcome can leave: its result, or its error.
Outcomes(requestId) ==
  {[data |-> requestId, loading |-> FALSE, error |-> 0],
   [data |-> 0, loading |-> FALSE, error |-> requestId]}

\* C40 as stated: when a call settles, state takes its outcome only if it is
\* the most recently started call, and is left as it was if the call was
\* superseded or the hook is disabled or unmounted at that moment.
C40_Original ==
  [][\A requestId \in hook.calls \ hook'.calls :
       IF requestId = hook.requestId /\ hook.isMounted /\ hook.enabled
       THEN hook'.state \in Outcomes(requestId)
       ELSE hook'.state = hook.state]_vars

\* C40 amended: when a call settles, state takes its outcome only if it is
\* the most recently started call and the hook's mount effect has run and its
\* cleanup has not; otherwise state is left as it was.  The effect of a render
\* with enabled false supersedes every call then in flight, so none of them
\* changes state afterwards; a call started by refetch() on a disabled hook is
\* committed like any other.
C40_LatestCallOnly ==
  [][/\ \A requestId \in hook.calls \ hook'.calls :
          IF requestId = hook.requestId /\ hook.isMounted
          THEN hook'.state \in Outcomes(requestId)
          ELSE hook'.state = hook.state
     /\ (hook.effects # "none" /\ hook'.effects = "none" /\ ~hook.enabled) =>
          /\ hook'.state = IdleState
          /\ \A requestId \in hook'.calls : requestId < hook'.requestId]_vars

\* Calls 1 and 2 were in flight together; 1 settled after 2 had started and was
\* ignored, 2 was committed; call 3 was in flight when the effect of the
\* disabling render ran and was ignored as well.
C40_Witness ==
  /\ hook.dropped = {1, 3}
  /\ hook.committed = {2}
  /\ hook.isMounted
  /\ ~hook.enabled
  /\ hook.effects = "none"
  /\ hook.state = IdleState

\* A refetch() made between the first render and its effects: its call is
\* superseded by the disabled effect and its outcome is ignored.
C40_WitnessEarlyRefetch ==
  /\ hook.dropped = {1}
  /\ hook.requestId = 2
  /\ hook.isMounted
  /\ ~hook.enabled
  /\ hook.state = IdleState

====
